---- MODULE Spec2Model ----
(***************************************************************************)
(* Orchestration kernel of agentkanban (src/backend/main.py and            *)
(* src/backend/dispatcher.py): the persisted task document, the in-memory  *)
(* worker pool, the dispatch cycle with its await points, the per-worker   *)
(* runner coroutines with their completion / failure / release callbacks,  *)
(* the worker protocol calls (complete, fail, manual retry) and the health *)
(* loop.                                                                   *)
(*                                                                         *)
(* Representation.  Task ids "task-NNN" are the numbers NNN, worker ids    *)
(* are positions in the pool, lease tokens are numbers handed out in       *)
(* order; 0 stands for None in all three.  Timestamps are seconds on the   *)
(* wall clock `now`; NoTime stands for None.  The document is the list     *)
(* `tasks` (in file order) plus the set of (type, task) pairs of the       *)
(* events it holds.  Fields no decision of the kernel reads (titles,       *)
(* descriptions, pids, per-attempt timestamps, timeline entries, meta      *)
(* counters) are not represented.                                          *)
(***************************************************************************)
EXTENDS Integers, Sequences, FiniteSets, Bags, TLC

\* ------------------------------------------------------------------------
\* Program constants
\* ------------------------------------------------------------------------
AUTO_RETRY_DELAY_SEC == 10
RATE_LIMIT_RETRY_DELAY_SEC == 300
WORKER_HEARTBEAT_TIMEOUT_SEC == 120
WORKER_COOLDOWN_SEC == 60
WORKER_MAX_CONSECUTIVE_FAILURES == 5
MAX_REVIEW_ROUNDS == 3
DEFAULT_MAX_RETRIES == 3
ALERT_CONSECUTIVE_FAILURES == 3
\* main.py emit_event: the most events a document holds
EVENTS_CAP == 2000

\* ------------------------------------------------------------------------
\* Bounds of the model
\* ------------------------------------------------------------------------
\* size of the worker pool, per engine (the pool of config.py has 3 + 2)
NumClaude == 1
NumCodex == 1
\* lease tokens handed out in one behaviour
MaxLeases == 4
\* tasks in the document (initial tasks plus spawned review children)
MaxTasks == 3
\* clock advances in one behaviour
MaxTicks == 2
\* cap of a worker's total_tasks_completed
MaxCompleted == 2
\* cap of a worker's health.consecutive_failures
MaxFailures == 3
\* the review loop of one task: leases, tasks and review rounds at most
MaxReviewLeases == 7
MaxReviewTasks == 4
MaxRounds == 4
\* leases handed out while verdicts are submitted by hand
MaxSubmitLeases == 2
\* highest task id handed out while sub-tasks are created and deleted
MaxTaskId == 3
\* leases handed out while tasks with dependencies are created and deleted
MaxDepsLeases == 2
\* leases handed out, and tasks in the document, while plans are approved
MaxPlanLeases == 2
MaxPlanTasks == 9
\* leases handed out, and failures counted on one worker, while two tasks
\* keep failing
MaxDisableLeases == 5
MaxDisableFailures == 5
\* leases handed out while tasks are being created
MaxOrderLeases == 2
\* leases handed out while sub-tasks are created and deleted
MaxSubtaskLeases == 2
\* SpecManual: leases, tasks and failures in a row of one worker
MaxManualLeases == 4
MaxManualTasks == 3
MaxManualFailures == 4
MaxManualTicks == 1
\* SpecDelete
MaxDeleteLeases == 2
\* SpecEvents: emissions past the cap, and how far below the cap a document
\* starts
MaxOverflow == 4
MaxHeadroom == 3
\* SpecProject
MaxProjectLeases == 2
MaxProjectTasks == 2
\* SpecExclusive
MaxExclusiveLeases == 2
\* SpecStall
MaxStallLeases == 2

NoTime == -1

Engines == {"claude", "codex"}
WorkerIds == 1..(NumClaude + NumCodex)

\* config.py INITIAL_WORKERS: the claude workers come first in the pool
WorkerEngine(w) == IF w <= NumClaude THEN "claude" ELSE "codex"

OtherEngine(e) == IF e = "claude" THEN "codex" ELSE "claude"

\* ------------------------------------------------------------------------
\* Generic helpers
\* ------------------------------------------------------------------------
Min(S) == CHOOSE x \in S : \A y \in S : x <= y

Max0(S) == IF S = {} THEN 0 ELSE CHOOSE x \in S : \A y \in S : y <= x

\* ------------------------------------------------------------------------
\* Task documents
\* ------------------------------------------------------------------------
\* a task as create_task writes it (main.py create_task), status pending
NewTask(id, ttype, routed, prio, sla, deps, created) ==
    [ id |-> id, status |-> "pending", task_type |-> ttype,
      routed_engine |-> routed, priority |-> prio, sla_tier |-> sla,
      created_at |-> created, parent_task_id |-> 0, sub_tasks |-> << >>,
      depends_on |-> deps, assigned_worker |-> 0, started_at |-> NoTime,
      completed_at |-> NoTime, retry_count |-> 0,
      max_retries |-> DEFAULT_MAX_RETRIES, retry_after |-> NoTime,
      commit_ids |-> {}, attempts |-> << >>,
      error_log |-> "none", review_status |-> "none", review_round |-> 0,
      review_feedback |-> FALSE, blocked_reason |-> "none",
      fallback_reason |-> "none", plan_mode |-> FALSE,
      dor_fields |-> FALSE, plan_content |-> << >> ]

\* index in the list of the first task with this id, 0 when there is none
find_task(ts, id) ==
    IF \E i \in 1..Len(ts) : ts[i].id = id
    THEN Min({i \in 1..Len(ts) : ts[i].id = id})
    ELSE 0

TaskIds(ts) == {ts[i].id : i \in 1..Len(ts)}

gen_task_id(ts) == Max0(TaskIds(ts)) + 1

\* route_task: an explicit engine wins; otherwise the engine preferred for the
\* task type when healthy, else the other one when healthy, else the
\* preferred one
route_task(engine, ttype, eh) ==
    LET preferred == IF ttype \in {"review", "refactor", "analysis", "audit"}
                     THEN "codex" ELSE "claude"
    IN IF engine # "auto" THEN engine
       ELSE IF eh[preferred] THEN preferred
       ELSE IF eh[OtherEngine(preferred)] THEN OtherEngine(preferred)
       ELSE preferred

\* variant: a dependency that is not in the document does not hold the task
dependencies_satisfied_lenient(task, ts) ==
    \A k \in 1..Len(task.depends_on) :
        LET d == find_task(ts, task.depends_on[k]) IN
        d # 0 =>
            IF task.task_type = "review"
            THEN ts[d].status \in {"reviewing", "completed"}
            ELSE ts[d].status = "completed"

dependencies_satisfied(task, ts) ==
    \A k \in 1..Len(task.depends_on) :
        LET d == find_task(ts, task.depends_on[k]) IN
        /\ d # 0
        /\ IF task.task_type = "review"
           THEN ts[d].status \in {"reviewing", "completed"}
           ELSE ts[d].status = "completed"

_sla_rank(task) ==
    CASE task.sla_tier = "urgent" -> 0
      [] task.sla_tier = "expedite" -> 1
      [] OTHER -> 2

priority_rank(task) ==
    CASE task.priority = "high" -> 0
      [] task.priority = "medium" -> 1
      [] task.priority = "low" -> 2
      [] OTHER -> 1

\* variant: priority ahead of the SLA tier
KeyLess_priority_first(a, b) ==
    \/ priority_rank(a) < priority_rank(b)
    \/ /\ priority_rank(a) = priority_rank(b)
       /\ \/ _sla_rank(a) < _sla_rank(b)
          \/ /\ _sla_rank(a) = _sla_rank(b)
             /\ a.created_at < b.created_at

\* the sort key of the dispatch loop compared as Python compares tuples
KeyLess(a, b) ==
    \/ _sla_rank(a) < _sla_rank(b)
    \/ /\ _sla_rank(a) = _sla_rank(b)
       /\ \/ priority_rank(a) < priority_rank(b)
          \/ /\ priority_rank(a) = priority_rank(b)
             /\ a.created_at < b.created_at

\* list.sort is stable: insert x after every element that is not greater
RECURSIVE InsertSorted(_, _)
InsertSorted(x, s) ==
    IF s = << >> THEN << x >>
    ELSE IF KeyLess(x, Head(s)) THEN << x >> \o s
    ELSE << Head(s) >> \o InsertSorted(x, Tail(s))

RECURSIVE SortTasks(_)
SortTasks(s) ==
    IF s = << >> THEN << >>
    ELSE InsertSorted(s[Len(s)], SortTasks(SubSeq(s, 1, Len(s) - 1)))

_all_subtasks_completed(parent, ts) ==
    /\ parent.sub_tasks # << >>
    /\ \A k \in 1..Len(parent.sub_tasks) :
          LET c == find_task(ts, parent.sub_tasks[k]) IN
          c # 0 /\ ts[c].status = "completed"

\* one pass over the list in file order, each parent seeing the roll-ups
\* made before it
RECURSIVE RollupFrom(_, _, _)
RollupFrom(ts, i, t) ==
    IF i > Len(ts) THEN ts
    ELSE IF ts[i].status = "blocked_by_subtasks" /\ _all_subtasks_completed(ts[i], ts)
         THEN RollupFrom([ts EXCEPT ![i].status = "completed",
                                  ![i].completed_at = t,
                                  ![i].blocked_reason = "none"], i + 1, t)
         ELSE RollupFrom(ts, i + 1, t)

_refresh_parent_rollup(ts, t) == RollupFrom(ts, 1, t)

emit_event(evs, type, task_id) == evs \cup {<< type, task_id >>}

\* the events list itself (lines 464-466): the event is appended and the
\* list cut to its last EVENTS_CAP entries; n numbers the emissions of the
\* document in the order they were made
\* variant: the oldest EVENTS_CAP entries are the ones kept
emit_event_list_keep_oldest(log, type) ==
    LET n == IF log = << >> THEN 1 ELSE log[Len(log)].n + 1
        appended == Append(log, [n |-> n, type |-> type])
    IN IF Len(appended) > EVENTS_CAP
       THEN SubSeq(appended, 1, EVENTS_CAP)
       ELSE appended

emit_event_list(log, type) ==
    LET n == IF log = << >> THEN 1 ELSE log[Len(log)].n + 1
        appended == Append(log, [n |-> n, type |-> type])
    IN IF Len(appended) > EVENTS_CAP
       THEN SubSeq(appended, Len(appended) - EVENTS_CAP + 1, Len(appended))
       ELSE appended

\* ------------------------------------------------------------------------
\* Attempts
\* ------------------------------------------------------------------------
\* variant: a new lease reuses the entry of the latest attempt
_append_attempt_reuse(task, w, lease) ==
    LET entry == [ attempt |-> 1, worker_id |-> w,
                   engine |-> WorkerEngine(w), lease_id |-> lease,
                   status |-> "running", commit_ids |-> {} ]
    IN [task EXCEPT !.attempts = IF @ = << >> THEN << entry >>
                                 ELSE [@ EXCEPT ![Len(@)] = entry]]

\* variant: the attempt records the engine the task was routed to
_append_attempt_routed(task, w, lease) ==
    [task EXCEPT !.attempts = Append(@,
        [ attempt |-> Len(task.attempts) + 1, worker_id |-> w,
          engine |-> task.routed_engine, lease_id |-> lease,
          status |-> "running", commit_ids |-> {} ])]

_append_attempt(task, w, lease) ==
    [task EXCEPT !.attempts = Append(@,
        [ attempt |-> Len(task.attempts) + 1, worker_id |-> w,
          engine |-> WorkerEngine(w), lease_id |-> lease,
          status |-> "running", commit_ids |-> {} ])]

_complete_attempt(task, success, commits) ==
    IF task.attempts = << >> THEN task
    ELSE [task EXCEPT
            !.attempts[Len(task.attempts)].status =
                IF success THEN "completed" ELSE "failed",
            !.attempts[Len(task.attempts)].commit_ids = commits]

\* lease of the latest attempt of a task, 0 when it has none
LatestLease(task) ==
    IF task.attempts = << >> THEN 0
    ELSE task.attempts[Len(task.attempts)].lease_id

\* ------------------------------------------------------------------------
\* Review loop
\* ------------------------------------------------------------------------
\* A reviewer's output is the sequence of its fenced json blocks; a block is
\* [valid, issues], issues being the severities of the issues it lists.
\* The last block decides; no block or an invalid last block is a failure.
\* variant: an output that cannot be parsed counts as a verdict without issues
_parse_review_json_lenient(summary) ==
    IF summary = << >> THEN [ok |-> TRUE, issues |-> << >>]
    ELSE LET last == summary[Len(summary)] IN
         [ok |-> TRUE, issues |-> IF last.valid THEN last.issues ELSE << >>]

_parse_review_json(summary) ==
    IF summary = << >> THEN [ok |-> FALSE, issues |-> << >>]
    ELSE LET last == summary[Len(summary)] IN
         IF last.valid THEN [ok |-> TRUE, issues |-> last.issues]
         ELSE [ok |-> FALSE, issues |-> << >>]

\* variant: the cap is met one round later
RoundsExhausted_late(round_num) == round_num > MAX_REVIEW_ROUNDS

\* the test of line 568 on the incremented round
RoundsExhausted(round_num) == round_num >= MAX_REVIEW_ROUNDS

\* variant: an approval always stamps completed_at
ApprovedAt_now(parent, t) == t

\* lines 554-556: completed_at is stamped unless the parent is completed
ApprovedAt(parent, t) ==
    IF parent.status # "completed" THEN t ELSE parent.completed_at

_apply_review_to_parent(issues, parent, t) ==
    LET has_critical ==
            \E k \in 1..Len(issues) : issues[k] \in {"critical", "high"}
        round_num == parent.review_round + 1
    IN
    IF ~has_critical
    THEN [parent EXCEPT
            !.review_status = "approved",
            !.status = "completed",
            !.completed_at = ApprovedAt(parent, t)]
    ELSE IF RoundsExhausted(round_num)
    THEN [parent EXCEPT
            !.review_round = round_num,
            !.status = "plan_review",
            !.blocked_reason = "max_review_rounds_exceeded",
            !.review_status = "changes_requested"]
    ELSE [parent EXCEPT
            !.review_round = round_num,
            !.review_feedback = TRUE,
            !.status = "pending",
            !.assigned_worker = 0,
            !.started_at = NoTime,
            !.review_status = "changes_requested"]

\* ts[i] is the review task that has just completed
_handle_review_completion(ts, i, summary, t) ==
    LET parsed == _parse_review_json(summary)
        ts1 == [ts EXCEPT ![i].review_status = "completed"]
        p == IF ts[i].parent_task_id # 0
             THEN find_task(ts, ts[i].parent_task_id) ELSE 0
    IN
    IF p = 0 THEN ts1
    ELSE IF ~parsed.ok
    THEN [ts1 EXCEPT ![p].review_status = "changes_requested",
                     ![p].status = "plan_review",
                     ![p].blocked_reason = "review_parse_failed"]
    ELSE [ts1 EXCEPT ![p] = _apply_review_to_parent(parsed.issues, ts1[p], t)]

\* the engine a review child of this task is routed to
ReviewEngineFor(task) ==
    IF task.routed_engine = "claude" THEN "codex" ELSE "claude"

\* variant: a completed task of any type is sent to review
ReviewSpawns_any_type(ts, i) ==
    /\ ts[i].review_round < MAX_REVIEW_ROUNDS
    /\ ~ \E k \in 1..Len(ts) :
            /\ ts[k].parent_task_id = ts[i].id
            /\ ts[k].task_type = "review"
            /\ ts[k].status \notin {"completed", "failed"}

ReviewSpawns(ts, i) ==
    /\ ts[i].task_type \in {"feature", "bugfix", "refactor"}
    /\ ts[i].review_round < MAX_REVIEW_ROUNDS
    /\ ~ \E k \in 1..Len(ts) :
            /\ ts[k].parent_task_id = ts[i].id
            /\ ts[k].task_type = "review"
            /\ ts[k].status \notin {"completed", "failed"}

\* the new child goes to the head of the list, as data["tasks"].insert(0, ..)
maybe_trigger_adversarial_review(ts, i, t) ==
    IF ~ReviewSpawns(ts, i) THEN ts
    ELSE LET task == ts[i]
             child == [ NewTask(gen_task_id(ts), "review", ReviewEngineFor(task),
                                task.priority, "standard", << task.id >>, t)
                        EXCEPT !.parent_task_id = task.id ]
         IN << child >> \o [ts EXCEPT ![i].review_status = "pending",
                                      ![i].status = "reviewing"]

\* ------------------------------------------------------------------------
\* Workers (in memory)
\* ------------------------------------------------------------------------
\* config.py build_workers, after the start-up call of
\* _update_worker_cli_health that stamps the first heartbeat
NewWorker(cli, t) ==
    [ status |-> "idle", current_task_id |-> 0, lease_id |-> 0,
      total_tasks_completed |-> 0, consecutive_failures |-> 0,
      last_heartbeat |-> t, error_at |-> NoTime, cli_available |-> cli ]

\* the worker fields _release_worker resets
_release_worker(wk, w, t) ==
    [wk EXCEPT ![w].status = "idle",
               ![w].current_task_id = 0,
               ![w].lease_id = 0,
               ![w].last_heartbeat = t]

\* the lease test shared by complete, fail and heartbeat
LeaseMismatch(wk, w, lease) ==
    lease # 0 /\ wk[w].lease_id # 0 /\ wk[w].lease_id # lease

Rejected(ts, ev, wk, ex) ==
    [ok |-> FALSE, tasks |-> ts, events |-> ev, workers |-> wk, execs |-> ex]

\* _complete_task_internal up to and including its write_tasks
_complete_task_internal(ts, ev, wk, ex, tid, w, lease, commits, summary, t) ==
    LET i == find_task(ts, tid) IN
    IF i = 0 THEN Rejected(ts, ev, wk, ex)
    ELSE IF ts[i].assigned_worker # w THEN Rejected(ts, ev, wk, ex)
    ELSE IF LeaseMismatch(wk, w, lease) THEN Rejected(ts, ev, wk, ex)
    ELSE
    LET done == _complete_attempt(
                    [ts[i] EXCEPT !.commit_ids = @ \cup commits,
                                  !.status = "completed",
                                  !.completed_at = t,
                                  !.error_log = "none",
                                  !.review_feedback = FALSE],
                    TRUE, commits)
        ts1 == [ts EXCEPT ![i] = done]
        wk1 == [wk EXCEPT ![w].total_tasks_completed = @ + 1,
                          ![w].consecutive_failures = 0]
        ts2 == IF done.task_type = "review"
               THEN _handle_review_completion(ts1, i, summary, t) ELSE ts1
        ts3 == maybe_trigger_adversarial_review(ts2, i, t)
        ev1 == emit_event(ev, "task_completed", tid)
    IN [ok |-> TRUE, tasks |-> _refresh_parent_rollup(ts3, t),
        events |-> ev1, workers |-> wk1, execs |-> ex]

\* error_log is "rate_limit" when the text holds a rate-limit signature
RetryDelay(error_log) ==
    IF error_log = "rate_limit" THEN RATE_LIMIT_RETRY_DELAY_SEC
    ELSE AUTO_RETRY_DELAY_SEC

\* variant: one retry more before the task is failed
RetryAllowed_inclusive(retry_count, max_retries) == retry_count <= max_retries

\* the test of line 1173 on the incremented count
RetryAllowed(retry_count, max_retries) == retry_count < max_retries

\* _fail_task_internal up to and including its write_tasks
_fail_task_internal(ts, ev, wk, ex, tid, w, lease, error_log, t) ==
    LET i == find_task(ts, tid) IN
    IF i = 0 THEN Rejected(ts, ev, wk, ex)
    ELSE IF ts[i].assigned_worker # w THEN Rejected(ts, ev, wk, ex)
    ELSE IF LeaseMismatch(wk, w, lease) THEN Rejected(ts, ev, wk, ex)
    ELSE
    LET retry_count == ts[i].retry_count + 1
        max_retries == ts[i].max_retries
        failed == _complete_attempt(
                    [ts[i] EXCEPT !.error_log = error_log,
                                  !.retry_count =
                                      IF retry_count < max_retries
                                      THEN retry_count ELSE max_retries],
                    FALSE, {})
        wk1 == _release_worker(
                    [wk EXCEPT ![w].consecutive_failures = @ + 1], w, t)
        after == IF RetryAllowed(retry_count, max_retries)
                 THEN [failed EXCEPT !.status = "pending",
                                     !.assigned_worker = 0,
                                     !.started_at = NoTime,
                                     !.retry_after = t + RetryDelay(error_log)]
                 ELSE [failed EXCEPT !.status = "failed"]
        ev1 == emit_event(ev,
                    IF RetryAllowed(retry_count, max_retries)
                    THEN "auto_retry_scheduled" ELSE "task_failed", tid)
        ev2 == IF wk1[w].consecutive_failures >= ALERT_CONSECUTIVE_FAILURES
               THEN emit_event(ev1, "alert_triggered", tid) ELSE ev1
    IN [ok |-> TRUE, tasks |-> [ts EXCEPT ![i] = after], events |-> ev2,
        workers |-> wk1, execs |-> ex \ {w}]

\* ------------------------------------------------------------------------
\* State
\* ------------------------------------------------------------------------
VARIABLES
    now,            \* wall clock, seconds
    ticks,          \* clock advances so far
    iso_accepts_z,  \* whether datetime.fromisoformat of the interpreter
                    \* parses a trailing "Z" (CPython 3.11 and later do)
    cli_path,       \* per engine: is its CLI on PATH
    tasks,          \* persisted document: the task list, in file order
    events,         \* persisted document: (type, task id) of its events
    workers,        \* WORKERS
    engine_health,  \* ENGINE_HEALTH
    execs,          \* keys of RUNTIME_EXECUTIONS
    runners,        \* bag of live _run_worker_task coroutines [w, t, pc]
    disp,           \* the dispatch cycle coroutine: pc and its locals
    leases,         \* lease tokens handed out so far
    project         \* the registry entry of the project of the document

vars == << now, ticks, iso_accepts_z, cli_path, tasks, events, workers,
           engine_health, execs, runners, disp, leases, project >>

\* ------------------------------------------------------------------------
\* Projects (project_service.py, main.py update_project)
\* ------------------------------------------------------------------------
ProjectStatuses == {"draft", "active", "on_hold", "completed", "archived"}

\* a registry entry as create_project and the migration write it
NewProject(status) ==
    [status |-> status, completed_at |-> NoTime, archived_at |-> NoTime]

ACTIVE_PROJECT_TASK_STATUSES ==
    {"pending", "in_progress", "plan_review", "blocked_by_subtasks", "reviewing"}

summarize_project_tasks(ts) ==
    [ total |-> Len(ts),
      active |-> Cardinality({i \in 1..Len(ts) :
                                 ts[i].status \in ACTIVE_PROJECT_TASK_STATUSES}) ]

\* variant: a completed project may be reopened
AllowedNext_reopen(current_status) ==
    CASE current_status = "draft" -> {"active", "archived"}
      [] current_status = "active" -> {"on_hold", "completed", "archived"}
      [] current_status = "on_hold" -> {"active", "archived"}
      [] current_status = "completed" -> {"active", "archived"}
      [] OTHER -> {}

\* the table of ensure_project_can_transition
AllowedNext(current_status) ==
    CASE current_status = "draft" -> {"active", "archived"}
      [] current_status = "active" -> {"on_hold", "completed", "archived"}
      [] current_status = "on_hold" -> {"active", "archived"}
      [] current_status = "completed" -> {"archived"}
      [] OTHER -> {}

\* TRUE when ensure_project_can_transition returns without raising
ensure_project_can_transition(current_status, next_status, task_summary) ==
    \/ current_status = next_status
    \/ /\ next_status \in AllowedNext(current_status)
       /\ ~(next_status = "active" /\ task_summary.total = 0)
       /\ ~(next_status = "completed" /\ task_summary.active > 0)
       /\ ~(next_status = "archived" /\ task_summary.active > 0)

\* PATCH /api/projects/{id} with a status and nothing else: the response
\* code and the registry entry it leaves
update_project_outcome(next_status) ==
    IF ~ensure_project_can_transition(project.status, next_status,
                                      summarize_project_tasks(tasks))
    THEN [code |-> 409, project |-> project]
    ELSE [code |-> 200,
          project |-> [project EXCEPT
                         !.status = next_status,
                         !.completed_at =
                             IF next_status # "completed" THEN NoTime
                             ELSE IF @ # NoTime THEN @ ELSE now,
                         !.archived_at =
                             IF next_status # "archived" THEN NoTime
                             ELSE IF @ # NoTime THEN @ ELSE now]]

update_project(next_status) ==
    /\ project' = update_project_outcome(next_status).project
    /\ UNCHANGED << now, ticks, iso_accepts_z, cli_path, tasks, events,
                    workers, engine_health, execs, runners, disp, leases >>

DispIdle ==
    [ pc |-> "idle", tasks |-> << >>, events |-> {}, idle |-> << >>,
      queue |-> << >>, changed |-> FALSE, pick |-> 0, cur |-> 0 ]

\* _safe_iso applied to a string written as isoformat().replace("+00:00","Z")
_safe_iso_z(t) == IF t # NoTime /\ iso_accepts_z THEN t ELSE NoTime

\* ------------------------------------------------------------------------
\* Dispatch cycle (dispatcher.py _dispatch_for_project)
\* ------------------------------------------------------------------------
RECURSIVE IdleWorkersFrom(_, _)
IdleWorkersFrom(wk, w) ==
    IF w > NumClaude + NumCodex THEN << >>
    ELSE (IF wk[w].status = "idle" /\ wk[w].cli_available
          THEN << w >> ELSE << >>) \o IdleWorkersFrom(wk, w + 1)

\* first worker of the list with this engine, 0 when there is none
FirstIdle(idle, engine) ==
    IF \E k \in 1..Len(idle) : WorkerEngine(idle[k]) = engine
    THEN idle[Min({k \in 1..Len(idle) : WorkerEngine(idle[k]) = engine})]
    ELSE 0

RECURSIVE Without(_, _)
Without(s, x) ==
    IF s = << >> THEN << >>
    ELSE (IF Head(s) = x THEN << >> ELSE << Head(s) >>) \o Without(Tail(s), x)

\* the test of lines 133-144 on one task of the document just read
IsCandidate(task, ts, t) ==
    /\ task.status = "pending"
    /\ task.assigned_worker = 0
    /\ dependencies_satisfied(task, ts)
    /\ ~ ( /\ task.retry_after # NoTime
           /\ _safe_iso_z(task.retry_after) # NoTime
           /\ t < _safe_iso_z(task.retry_after) )

RECURSIVE CandidatesFrom(_, _, _)
CandidatesFrom(ts, i, t) ==
    IF i > Len(ts) THEN << >>
    ELSE (IF IsCandidate(ts[i], ts, t) THEN << ts[i] >> ELSE << >>)
         \o CandidatesFrom(ts, i + 1, t)

\* ids of the ready tasks in dispatch order
PendingQueue(ts, t) ==
    LET sorted == SortTasks(CandidatesFrom(ts, 1, t)) IN
    [k \in 1..Len(sorted) |-> sorted[k].id]

\* lines 177-214: lease task tid to worker w; st threads the coroutine's
\* locals (d) and the in-memory state it mutates in place
Assign(st, tid, w, t) ==
    LET i == find_task(st.d.tasks, tid)
        lease == st.ls + 1
        task == st.d.tasks[i]
        leased == _append_attempt(
                    [task EXCEPT !.status = "in_progress",
                                 !.assigned_worker = w,
                                 !.started_at = IF @ # NoTime THEN @ ELSE t,
                                 !.blocked_reason = "none"], w, lease)
    IN [ d |-> [st.d EXCEPT
                  !.tasks = [@ EXCEPT ![i] = leased],
                  !.events = emit_event(emit_event(@, "task_dispatched", tid),
                                        "worker_claimed", tid),
                  !.changed = TRUE,
                  !.idle = Without(@, w),
                  !.pc = "assigned",
                  !.pick = 0,
                  !.cur = 0],
         wk |-> [st.wk EXCEPT ![w].status = "busy",
                              ![w].current_task_id = tid,
                              ![w].lease_id = lease,
                              ![w].last_heartbeat = t],
         ex |-> st.ex \cup {w},
         rn |-> IF w \in st.ex THEN st.rn
                ELSE st.rn (+) SetToBag({[w |-> w, t |-> tid, pc |-> "running"]}),
         ls |-> lease ]

\* variant: every task may fall back
NoFallback_none(task) == FALSE

\* lines 158-159: a task of this kind is skipped when no worker of its
\* routed engine is idle
NoFallback(task) == task.task_type = "review"

\* the loop of lines 151-221, run up to its next await or to its end
RECURSIVE Loop(_, _)
Loop(st, t) ==
    IF st.d.queue = << >> THEN [st EXCEPT !.d.pc = "done"]
    ELSE
    LET tid == Head(st.d.queue)
        i == find_task(st.d.tasks, tid)
        task == st.d.tasks[i]
        rest == [st EXCEPT !.d.queue = Tail(@)]
        engine == task.routed_engine
        w == FirstIdle(st.d.idle, engine)
        fb == FirstIdle(st.d.idle, OtherEngine(engine))
    IN
    IF w # 0 THEN Assign(rest, tid, w, t)
    ELSE IF NoFallback(task) THEN Loop(rest, t)
    ELSE IF fb # 0
    THEN [rest EXCEPT
            !.d.tasks = [@ EXCEPT ![i].fallback_reason =
                            IF engine = "claude" THEN "no_idle_claude"
                            ELSE "no_idle_codex"],
            !.d.events = emit_event(@, "engine_fallback", tid),
            !.d.pc = "fallback",
            !.d.pick = fb,
            !.d.cur = tid]
    ELSE Loop(rest, t)

\* what the coroutine leaves behind when it is at st: the final write
\* happens iff it reached the end with changed set
Settled(st) ==
    LET written == st.d.pc = "done" /\ st.d.changed IN
    [ workers |-> st.wk, execs |-> st.ex, runners |-> st.rn, leases |-> st.ls,
      disp |-> IF st.d.pc = "done" THEN DispIdle ELSE st.d,
      tasks |-> IF written THEN st.d.tasks ELSE tasks,
      events |-> IF written THEN st.d.events ELSE events ]

Settle(st) ==
    LET o == Settled(st) IN
    /\ workers' = o.workers
    /\ execs' = o.execs
    /\ runners' = o.runners
    /\ leases' = o.leases
    /\ disp' = o.disp
    /\ tasks' = o.tasks
    /\ events' = o.events

\* lines 98-149 and the loop up to its first await: what a cycle that
\* starts now leaves behind when it gets there
BeginOutcome ==
    LET data == _refresh_parent_rollup(tasks, now)
        idle == IdleWorkersFrom(workers, 1)
        alert == \A e \in Engines : ~engine_health[e]
    IN
    IF idle = << >>
    THEN [ workers |-> workers, execs |-> execs, runners |-> runners,
           leases |-> leases, disp |-> disp,
           tasks |-> IF alert THEN data ELSE tasks,
           events |-> IF alert THEN emit_event(events, "alert_triggered", 0)
                      ELSE events ]
    ELSE Settled(Loop(
            [ d |-> [ pc |-> "loop", tasks |-> data, events |-> events,
                      idle |-> idle, queue |-> PendingQueue(data, now),
                      changed |-> FALSE, pick |-> 0, cur |-> 0 ],
              wk |-> workers, ex |-> execs, rn |-> runners,
              ls |-> leases ], now))

DispatchBegin ==
    /\ disp.pc = "idle"
    /\ LET o == BeginOutcome IN
       /\ workers' = o.workers
       /\ execs' = o.execs
       /\ runners' = o.runners
       /\ leases' = o.leases
       /\ disp' = o.disp
       /\ tasks' = o.tasks
       /\ events' = o.events
    /\ UNCHANGED << project, now, ticks, iso_accepts_z, cli_path, engine_health >>

\* resumption after the await of line 172 (broadcast of engine_fallback)
DispatchAfterFallback ==
    /\ disp.pc = "fallback"
    /\ Settle(Assign([ d |-> disp, wk |-> workers, ex |-> execs,
                       rn |-> runners, ls |-> leases ],
                     disp.cur, disp.pick, now))
    /\ UNCHANGED << project, now, ticks, iso_accepts_z, cli_path, engine_health >>

\* resumption after the awaits of lines 216-218
DispatchAfterAssign ==
    /\ disp.pc = "assigned"
    /\ LET st == [ d |-> disp, wk |-> workers, ex |-> execs,
                   rn |-> runners, ls |-> leases ]
       IN Settle(IF disp.idle = << >>
                 THEN [st EXCEPT !.d.pc = "done"]
                 ELSE Loop(st, now))
    /\ UNCHANGED << project, now, ticks, iso_accepts_z, cli_path, engine_health >>

\* ------------------------------------------------------------------------
\* Runner coroutines (main.py _run_worker_task, worker_runner.py run_task)
\* ------------------------------------------------------------------------
\* inputs: commit hashes found in stdout, reviewer outputs, error texts
CommitSets == {{}, {"c1"}}

ReviewOutputs ==
    { << >>,
      << [valid |-> TRUE, issues |-> << >>] >>,
      << [valid |-> TRUE, issues |-> << "high" >>] >> }

ErrorLogs == {"rate_limit", "other"}

Running == {r \in BagToSet(runners) : r.pc = "running"}

Releasing == {r \in BagToSet(runners) : r.pc = "releasing"}

Advance(r) ==
    (runners (-) SetToBag({r})) (+) SetToBag({[r EXCEPT !.pc = "releasing"]})

\* only a review task's output is parsed
IsReview(ts, tid) ==
    find_task(ts, tid) # 0 /\ ts[find_task(ts, tid)].task_type = "review"

\* the write of _on_complete when the merge back to mainline failed
MergeConflictWrite(ts, ev, tid) ==
    IF find_task(ts, tid) # 0 THEN emit_event(ev, "merge_conflict", tid) ELSE ev

Commit(res) ==
    /\ tasks' = res.tasks
    /\ events' = res.events
    /\ workers' = res.workers
    /\ execs' = res.execs

\* exit code 0: _on_complete, with the lease the worker holds at that moment
RunnerComplete(r, commits, summary, merge_ok) ==
    /\ r \in Running
    /\ (~IsReview(tasks, r.t) => summary = << >>)
    /\ Commit(_complete_task_internal(
                tasks,
                IF merge_ok THEN events ELSE MergeConflictWrite(tasks, events, r.t),
                workers, execs, r.t, r.w, workers[r.w].lease_id,
                commits, summary, now))
    /\ runners' = Advance(r)
    /\ UNCHANGED << project, now, ticks, iso_accepts_z, cli_path, engine_health, disp, leases >>

\* non-zero exit code or spawn error: _on_fail
RunnerFail(r, error_log) ==
    /\ r \in Running
    /\ Commit(_fail_task_internal(tasks, events, workers, execs, r.t, r.w,
                                  workers[r.w].lease_id, error_log, now))
    /\ runners' = Advance(r)
    /\ UNCHANGED << project, now, ticks, iso_accepts_z, cli_path, engine_health, disp, leases >>

\* the finally clause of run_task: on_release
RunnerRelease(r) ==
    /\ r \in Releasing
    /\ workers' = _release_worker(workers, r.w, now)
    /\ execs' = execs \ {r.w}
    /\ runners' = runners (-) SetToBag({r})
    /\ UNCHANGED << project, now, ticks, iso_accepts_z, cli_path, tasks, events,
                    engine_health, disp, leases >>

\* ------------------------------------------------------------------------
\* Worker protocol and task actions called from outside
\* ------------------------------------------------------------------------
\* the (task, worker, lease) triples a report over the worker protocol can
\* carry: those of the attempts on record
Reports(ts) ==
    UNION { { [t |-> ts[i].id, w |-> ts[i].attempts[k].worker_id,
               l |-> ts[i].attempts[k].lease_id] :
              k \in 1..Len(ts[i].attempts) } : i \in 1..Len(ts) }

\* POST /api/tasks/{id}/complete
complete_task(tid, w, lease, commits, summary) ==
    /\ (~IsReview(tasks, tid) => summary = << >>)
    /\ Commit(_complete_task_internal(tasks, events, workers, execs, tid, w,
                                      lease, commits, summary, now))
    /\ UNCHANGED << project, now, ticks, iso_accepts_z, cli_path, engine_health,
                    runners, disp, leases >>

\* POST /api/tasks/{id}/fail
fail_task(tid, w, lease, error_log) ==
    /\ Commit(_fail_task_internal(tasks, events, workers, execs, tid, w,
                                  lease, error_log, now))
    /\ UNCHANGED << project, now, ticks, iso_accepts_z, cli_path, engine_health,
                    runners, disp, leases >>

\* POST /api/tasks/{id}/retry (_retry_task_impl); a task that is not failed
\* is refused with a conflict and nothing is written
\* variant: a completed task may be retried as well
Retryable_done(task) == task.status \in {"failed", "completed"}

\* the test of _retry_task_impl on the task's status
Retryable(task) == task.status = "failed"

retry_task(tid) ==
    /\ LET i == find_task(tasks, tid) IN
       /\ i # 0
       /\ Retryable(tasks[i])
       /\ tasks' = [tasks EXCEPT ![i].status = "pending",
                                 ![i].retry_count = 0,
                                 ![i].error_log = "none",
                                 ![i].assigned_worker = 0,
                                 ![i].started_at = NoTime,
                                 ![i].blocked_reason = "none"]
       /\ events' = emit_event(events, "retry_scheduled", tid)
    /\ UNCHANGED << project, now, ticks, iso_accepts_z, cli_path, workers,
                    engine_health, execs, runners, disp, leases >>

\* POST /api/tasks/{id}/review-submit: the verdict of task tid is recorded and
\* applied to its parent; issues are the severities of the submitted issues
submit_review(tid, issues) ==
    /\ LET i == find_task(tasks, tid)
           ts1 == [tasks EXCEPT ![i].review_status = "completed",
                                ![i].status = "completed",
                                ![i].completed_at = now]
           p == IF ts1[i].parent_task_id # 0
                THEN find_task(ts1, ts1[i].parent_task_id) ELSE 0
       IN /\ i # 0
          /\ tasks' = IF p = 0 THEN ts1
                      ELSE [ts1 EXCEPT ![p] =
                              _apply_review_to_parent(issues, ts1[p], now)]
    /\ events' = emit_event(events, "review_submitted", tid)
    /\ UNCHANGED << project, now, ticks, iso_accepts_z, cli_path, workers,
                    engine_health, execs, runners, disp, leases >>

\* the loop of _decompose_task_impl: one sub-task per input, each put at the
\* head of the list and appended to the parent's sub_tasks
RECURSIVE AddSubTasks(_, _, _, _)
AddSubTasks(ts, tid, subs, t) ==
    IF subs = << >> THEN ts
    ELSE LET sub == [ NewTask(gen_task_id(ts), Head(subs).task_type,
                              route_task(Head(subs).engine,
                                         Head(subs).task_type, engine_health),
                              Head(subs).priority, "standard", << >>, t)
                      EXCEPT !.parent_task_id = tid ]
             p == find_task(ts, tid)
         IN AddSubTasks(<< sub >> \o [ts EXCEPT ![p].sub_tasks = Append(@, sub.id)],
                        tid, Tail(subs), t)

\* POST /api/tasks/{id}/decompose (_decompose_task_impl)
decompose_task(tid, subs) ==
    /\ find_task(tasks, tid) # 0
    /\ LET ts1 == AddSubTasks(tasks, tid, subs, now)
           p == find_task(ts1, tid)
       IN tasks' = [ts1 EXCEPT ![p].status = "blocked_by_subtasks",
                               ![p].blocked_reason = "waiting_subtasks"]
    /\ events' = emit_event(events, "task_decomposed", tid)
    /\ UNCHANGED << project, now, ticks, iso_accepts_z, cli_path, workers,
                    engine_health, execs, runners, disp, leases >>

\* the list without the tasks that have this id
RECURSIVE RemoveTask(_, _)
RemoveTask(ts, tid) ==
    IF ts = << >> THEN << >>
    ELSE (IF Head(ts).id = tid THEN << >> ELSE << Head(ts) >>)
         \o RemoveTask(Tail(ts), tid)

\* the worker delete_task releases: the assigned one when it is bound to the
\* task, or, when none is assigned, the first one bound to the task
BoundWorker(task) ==
    IF task.assigned_worker # 0
    THEN IF workers[task.assigned_worker].current_task_id = task.id
         THEN task.assigned_worker ELSE 0
    ELSE IF \E w \in WorkerIds : workers[w].current_task_id = task.id
         THEN Min({w \in WorkerIds : workers[w].current_task_id = task.id})
         ELSE 0

\* DELETE /api/tasks/{id}; refused when the task is missing or another task
\* depends on it
delete_task(tid) ==
    /\ find_task(tasks, tid) # 0
    /\ \A i \in 1..Len(tasks) :
          \A k \in 1..Len(tasks[i].depends_on) : tasks[i].depends_on[k] # tid
    /\ LET task == tasks[find_task(tasks, tid)]
           w == BoundWorker(task)
           p == IF task.parent_task_id # 0
                THEN find_task(tasks, task.parent_task_id) ELSE 0
           ts1 == IF p = 0 THEN tasks
                  ELSE [tasks EXCEPT ![p].sub_tasks = Without(@, tid)]
       IN /\ workers' = IF w = 0 THEN workers
                         ELSE _release_worker(workers, w, now)
          /\ execs' = IF w = 0 THEN execs ELSE execs \ {w}
          /\ tasks' = RemoveTask(ts1, tid)
    /\ events' = emit_event(events, "task_deleted", tid)
    /\ UNCHANGED << project, now, ticks, iso_accepts_z, cli_path, engine_health,
                    runners, disp, leases >>

\* a plan line by what the line scan of _decompose_from_plan makes of it:
\* "blank" is empty or white space, "short" has fewer than 3 characters
\* once its bullet or ordinal is stripped, any other line is named by the
\* task type classify_task_type derives from its text
ItemLines == {"feature", "review"}

RECURSIVE Candidates(_)
Candidates(lines) ==
    IF lines = << >> THEN << >>
    ELSE (IF Head(lines) \in ItemLines THEN << Head(lines) >> ELSE << >>)
         \o Candidates(Tail(lines))

FirstEight(s) == SubSeq(s, 1, IF Len(s) < 8 THEN Len(s) ELSE 8)

\* variant: a plan without a usable line yields no sub-task
_decompose_from_plan_bare(task) ==
    LET picked == FirstEight(Candidates(task.plan_content)) IN
    [k \in 1..Len(picked) |->
        [task_type |-> picked[k], engine |-> "auto", priority |-> task.priority]]

\* the title stands in when no line survives; a title without a keyword
\* classifies as a feature
_decompose_from_plan(task) ==
    LET found == Candidates(task.plan_content)
        picked == FirstEight(IF found = << >> THEN << "feature" >> ELSE found)
    IN [k \in 1..Len(picked) |->
        [task_type |-> picked[k], engine |-> "auto", priority |-> task.priority]]

_validate_task_dor(task) == task.plan_mode => task.dor_fields

\* the plan written when the task has none: three numbered lines, the last
\* one about code review
DefaultPlan == << "feature", "feature", "review" >>

\* POST /api/tasks/{id}/approve-plan; feedback is << >> or the lines given
approve_plan(tid, approved, feedback) ==
    /\ find_task(tasks, tid) # 0
    /\ LET i == find_task(tasks, tid)
           task == tasks[i]
       IN
       /\ task.status = "plan_review"
       /\ _validate_task_dor(task)
       /\ IF ~approved
          THEN /\ tasks' = [tasks EXCEPT
                              ![i].status = "pending",
                              ![i].plan_content =
                                  IF feedback = << >> THEN @
                                  ELSE @ \o (IF @ = << >> THEN << >>
                                             ELSE << "blank" >>)
                                         \o << "feature" >> \o feedback]
               /\ events' = emit_event(events, "plan_rejected", tid)
          ELSE LET planned == [task EXCEPT
                                 !.status = "blocked_by_subtasks",
                                 !.blocked_reason = "waiting_subtasks",
                                 !.plan_content =
                                     IF @ = << >> THEN DefaultPlan ELSE @]
               IN /\ tasks' = AddSubTasks([tasks EXCEPT ![i] = planned], tid,
                                          _decompose_from_plan(planned), now)
                  /\ events' = emit_event(events, "plan_approved", tid)
    /\ UNCHANGED << project, now, ticks, iso_accepts_z, cli_path, workers,
                    engine_health, execs, runners, disp, leases >>

\* ------------------------------------------------------------------------
\* Manual routes of the execution protocol. Each route runs from its
\* read_tasks to its raise or its write_tasks without an await, so it is one
\* step; its outcome is the response code and the state it leaves.
\* ------------------------------------------------------------------------
\* a raise of HTTPException(code): nothing has been assigned or written
Refused(code) ==
    [ code |-> code, tasks |-> tasks, events |-> events, workers |-> workers,
      execs |-> execs, runners |-> runners, leases |-> leases ]

\* the first idle worker of the engine in WORKERS order, 0 when none
FirstIdleOf(engine) ==
    LET S == {w \in WorkerIds :
                 WorkerEngine(w) = engine /\ workers[w].status = "idle"}
    IN IF S = {} THEN 0 ELSE Min(S)

\* POST /api/tasks/{id}/dispatch
dispatch_task_outcome(tid) ==
    LET i == find_task(tasks, tid) IN
    IF i = 0 THEN Refused(404)
    ELSE IF tasks[i].status # "pending" THEN Refused(409)
    ELSE IF ~dependencies_satisfied(tasks[i], tasks) THEN Refused(409)
    ELSE
    LET task == tasks[i]
        engine == task.routed_engine
        fallback == OtherEngine(engine)
        first == FirstIdleOf(engine)
        w == IF first # 0 THEN first ELSE FirstIdleOf(fallback)
    IN
    IF w = 0 THEN Refused(409)
    ELSE
    LET lease == leases + 1
        leased == _append_attempt(
                    [task EXCEPT
                       !.fallback_reason =
                           IF first # 0 THEN @
                           ELSE IF fallback = "claude"
                                THEN "manual_dispatch_fallback_claude"
                                ELSE "manual_dispatch_fallback_codex",
                       !.status = "in_progress",
                       !.assigned_worker = w,
                       !.started_at = now], w, lease)
    IN [ code |-> 200,
         tasks |-> [tasks EXCEPT ![i] = leased],
         events |-> emit_event(emit_event(events, "task_dispatched", tid),
                               "worker_claimed", tid),
         workers |-> [workers EXCEPT ![w].status = "busy",
                                     ![w].current_task_id = tid,
                                     ![w].lease_id = lease],
         execs |-> execs \cup {w},
         runners |-> IF w \in execs THEN runners
                     ELSE runners (+) SetToBag({[w |-> w, t |-> tid,
                                                pc |-> "running"]}),
         leases |-> lease ]

\* POST /api/tasks/{id}/claim
claim_task_outcome(tid, w) ==
    LET i == find_task(tasks, tid) IN
    IF i = 0 THEN Refused(404)
    ELSE IF tasks[i].status \notin {"pending", "in_progress"} THEN Refused(409)
    ELSE IF /\ tasks[i].status = "pending"
            /\ ~dependencies_satisfied(tasks[i], tasks) THEN Refused(409)
    ELSE IF w \notin WorkerIds THEN Refused(404)
    ELSE IF workers[w].status \notin {"idle", "busy"} THEN Refused(409)
    ELSE
    LET lease == leases + 1
        claimed == _append_attempt(
                     [tasks[i] EXCEPT
                        !.status = "in_progress",
                        !.assigned_worker = w,
                        !.started_at = IF @ # NoTime THEN @ ELSE now],
                     w, lease)
    IN [ code |-> 200,
         tasks |-> [tasks EXCEPT ![i] = claimed],
         events |-> emit_event(events, "worker_claimed", tid),
         workers |-> [workers EXCEPT ![w].status = "busy",
                                     ![w].current_task_id = tid,
                                     ![w].lease_id = lease,
                                     ![w].last_heartbeat = now],
         execs |-> execs,
         runners |-> runners,
         leases |-> lease ]

\* variant: the heartbeat is stamped as soon as the worker is found
heartbeat_task_outcome_stamp_first(tid, w, lease) ==
    LET i == find_task(tasks, tid) IN
    IF i = 0 \/ w \notin WorkerIds THEN Refused(404)
    ELSE
    LET seen == [Refused(200) EXCEPT !.workers[w].last_heartbeat = now] IN
    IF tasks[i].assigned_worker # w THEN [seen EXCEPT !.code = 409]
    ELSE IF LeaseMismatch(workers, w, lease) THEN [seen EXCEPT !.code = 409]
    ELSE seen

\* POST /api/tasks/{id}/heartbeat; lease 0 is a request without lease_id
heartbeat_task_outcome(tid, w, lease) ==
    LET i == find_task(tasks, tid) IN
    IF i = 0 \/ w \notin WorkerIds THEN Refused(404)
    ELSE IF tasks[i].assigned_worker # w THEN Refused(409)
    ELSE IF LeaseMismatch(workers, w, lease) THEN Refused(409)
    ELSE [Refused(200) EXCEPT !.workers[w].last_heartbeat = now]

\* the state a route leaves is installed
Respond(o) ==
    /\ tasks' = o.tasks
    /\ events' = o.events
    /\ workers' = o.workers
    /\ execs' = o.execs
    /\ runners' = o.runners
    /\ leases' = o.leases
    /\ UNCHANGED << project, now, ticks, iso_accepts_z, cli_path, engine_health, disp >>

dispatch_task(tid) == Respond(dispatch_task_outcome(tid))

claim_task(tid, w) == Respond(claim_task_outcome(tid, w))

heartbeat_task(tid, w, lease) == Respond(heartbeat_task_outcome(tid, w, lease))

\* the response code of POST /api/tasks/{id}/approve-plan
approve_plan_code(tid) ==
    LET i == find_task(tasks, tid) IN
    IF i = 0 THEN 404
    ELSE IF tasks[i].status # "plan_review" THEN 409
    ELSE IF ~_validate_task_dor(tasks[i]) THEN 409
    ELSE 200

\* the response code of POST /api/tasks/{id}/retry
retry_task_code(tid) ==
    LET i == find_task(tasks, tid) IN
    IF i = 0 THEN 404
    ELSE IF tasks[i].status # "failed" THEN 409
    ELSE 200

\* variant: depends_on is taken as given
DependenciesExist_unchecked(ts, deps) == TRUE

\* the validation of depends_on in create_task
DependenciesExist(ts, deps) ==
    \A k \in 1..Len(deps) : find_task(ts, deps[k]) # 0

\* POST /api/tasks with plan_mode false: refused when a dependency is not in
\* the document; the new task goes to the head of the list
create_task(ttype, engine, prio, sla, deps) ==
    /\ DependenciesExist(tasks, deps)
    /\ LET id == gen_task_id(tasks) IN
       /\ tasks' = << NewTask(id, ttype,
                              route_task(engine, ttype, engine_health),
                              prio, sla, deps, now) >> \o tasks
       /\ events' = emit_event(events, "task_created", id)
    /\ UNCHANGED << project, now, ticks, iso_accepts_z, cli_path, workers,
                    engine_health, execs, runners, disp, leases >>

\* lines 252-276 with the cooldown compared strictly
HealthOf_strict_cooldown(wr, t) ==
    IF wr.status = "busy" /\ wr.last_heartbeat # NoTime
    THEN IF t - wr.last_heartbeat > WORKER_HEARTBEAT_TIMEOUT_SEC
         THEN [wr EXCEPT !.status = "error",
                         !.current_task_id = 0,
                         !.lease_id = 0,
                         !.consecutive_failures = @ + 1,
                         !.error_at = t]
         ELSE wr
    ELSE IF /\ wr.status = "error"
            /\ wr.consecutive_failures < WORKER_MAX_CONSECUTIVE_FAILURES
            /\ wr.error_at # NoTime
            /\ t - wr.error_at > WORKER_COOLDOWN_SEC
    THEN [wr EXCEPT !.status = "idle",
                    !.error_at = NoTime,
                    !.last_heartbeat = t]
    ELSE wr

\* ------------------------------------------------------------------------
\* Health loop (dispatcher.py health_loop, one iteration)
\* ------------------------------------------------------------------------
\* variant: the timeout is reached, not exceeded
HealthOf_inclusive(wr, t) ==
    IF wr.status = "busy" /\ wr.last_heartbeat # NoTime
    THEN IF t - wr.last_heartbeat >= WORKER_HEARTBEAT_TIMEOUT_SEC
         THEN [wr EXCEPT !.status = "error",
                         !.current_task_id = 0,
                         !.lease_id = 0,
                         !.consecutive_failures = @ + 1,
                         !.error_at = t]
         ELSE wr
    ELSE IF /\ wr.status = "error"
            /\ wr.consecutive_failures < WORKER_MAX_CONSECUTIVE_FAILURES
            /\ wr.error_at # NoTime
            /\ t - wr.error_at >= WORKER_COOLDOWN_SEC
    THEN [wr EXCEPT !.status = "idle",
                    !.error_at = NoTime,
                    !.last_heartbeat = t]
    ELSE wr

\* lines 252-276 for one worker record
HealthOf(wr, t) ==
    IF wr.status = "busy" /\ wr.last_heartbeat # NoTime
    THEN IF t - wr.last_heartbeat > WORKER_HEARTBEAT_TIMEOUT_SEC
         THEN [wr EXCEPT !.status = "error",
                         !.current_task_id = 0,
                         !.lease_id = 0,
                         !.consecutive_failures = @ + 1,
                         !.error_at = t]
         ELSE wr
    ELSE IF /\ wr.status = "error"
            /\ wr.consecutive_failures < WORKER_MAX_CONSECUTIVE_FAILURES
            /\ wr.error_at # NoTime
            /\ t - wr.error_at >= WORKER_COOLDOWN_SEC
    THEN [wr EXCEPT !.status = "idle",
                    !.error_at = NoTime,
                    !.last_heartbeat = t]
    ELSE wr

\* main.py _update_worker_cli_health
CliChecked(wk, t) ==
    [w \in WorkerIds |->
        [wk[w] EXCEPT !.cli_available = cli_path[WorkerEngine(w)],
                      !.last_heartbeat = IF @ # NoTime THEN @ ELSE t]]

\* the health loop, were it to hand the task of a stalled worker back to the
\* queue
HealthTick_requeue ==
    /\ LET probed == CliChecked(workers, now)
           after == [w \in WorkerIds |-> HealthOf(probed[w], now)]
           recovered == {w \in WorkerIds :
                            probed[w].status = "error" /\ after[w].status = "idle"}
           stalled == {w \in WorkerIds :
                            probed[w].status = "busy" /\ after[w].status = "error"}
       IN /\ workers' = after
          /\ events' = IF recovered = {} THEN events
                       ELSE emit_event(events, "worker_recovered", 0)
          /\ tasks' = [i \in 1..Len(tasks) |->
                         IF /\ tasks[i].status = "in_progress"
                            /\ tasks[i].assigned_worker \in stalled
                         THEN [tasks[i] EXCEPT !.status = "pending",
                                               !.assigned_worker = 0]
                         ELSE tasks[i]]
    /\ engine_health' = cli_path
    /\ UNCHANGED << project, now, ticks, iso_accepts_z, cli_path, execs,
                    runners, disp, leases >>

HealthTick ==
    /\ LET probed == CliChecked(workers, now)
           after == [w \in WorkerIds |-> HealthOf(probed[w], now)]
           recovered == {w \in WorkerIds :
                            probed[w].status = "error" /\ after[w].status = "idle"}
       IN /\ workers' = after
          /\ events' = IF recovered = {} THEN events
                       ELSE emit_event(events, "worker_recovered", 0)
    /\ engine_health' = cli_path
    /\ UNCHANGED << project, now, ticks, iso_accepts_z, cli_path, tasks, execs,
                    runners, disp, leases >>

\* ------------------------------------------------------------------------
\* Time
\* ------------------------------------------------------------------------
Tick(d) ==
    /\ ticks < MaxTicks
    /\ now' = now + d
    /\ ticks' = ticks + 1
    /\ UNCHANGED << project, iso_accepts_z, cli_path, tasks, events, workers,
                    engine_health, execs, runners, disp, leases >>

\* ------------------------------------------------------------------------
\* Start-up
\* ------------------------------------------------------------------------
\* first instant of a behaviour; the tasks of the document were created
\* before it
Boot == 2

AllHealthy == [e \in Engines |-> TRUE]

\* the process right after start-up: lifespan has run
\* _update_worker_cli_health once, the loops have not yet run, and the
\* document holds the tasks ts with their task_created events
Started(cli, ts) ==
    /\ now = Boot
    /\ ticks = 0
    /\ cli_path = cli
    /\ workers = [w \in WorkerIds |-> NewWorker(cli[WorkerEngine(w)], Boot)]
    /\ engine_health = cli
    /\ execs = {}
    /\ runners = EmptyBag
    /\ disp = DispIdle
    /\ leases = 0
    /\ tasks = ts
    /\ events = {<< "task_created", id >> : id \in TaskIds(ts)}
    /\ project = NewProject("active")

\* the counters that grow without limit in the program, held within the
\* bounds by every specification below
WithinBounds ==
    /\ leases' <= MaxLeases
    /\ Len(tasks') <= MaxTasks
    /\ \A w \in WorkerIds :
          /\ workers'[w].total_tasks_completed <= MaxCompleted
          /\ workers'[w].consecutive_failures <= MaxFailures

\* ------------------------------------------------------------------------
\* Specification Spec: the lease protocol on two tasks routed to the same
\* engine, a test task and a more urgent feature task created after it that
\* may depend on it or on a task that is not in the document; the codex CLI
\* may be missing from the host
\* ------------------------------------------------------------------------
Test1 == NewTask(1, "test", route_task("auto", "test", AllHealthy),
                 "medium", "standard", << >>, 0)

Feature2(deps) ==
    NewTask(2, "feature", route_task("auto", "feature", AllHealthy),
            "high", "standard", deps, 1)

\* an id no task of the document has
Absent == 9

CodexMissing == [e \in Engines |-> e = "claude"]

Init ==
    /\ iso_accepts_z \in BOOLEAN
    /\ \E cli \in {AllHealthy, CodexMissing},
          deps \in {<< >>, << 1 >>, << Absent >>} :
          Started(cli, << Feature2(deps), Test1 >>)

Next ==
    \/ \E d \in {AUTO_RETRY_DELAY_SEC} :
          Tick(d) /\ WithinBounds
    \/ DispatchBegin /\ WithinBounds
    \/ DispatchAfterFallback /\ WithinBounds
    \/ DispatchAfterAssign /\ WithinBounds
    \/ \E r \in Running, s \in ReviewOutputs :
          RunnerComplete(r, {"c1"}, s, TRUE) /\ WithinBounds
    \/ \E r \in Running :
          RunnerFail(r, "other") /\ WithinBounds
    \/ \E r \in Releasing :
          RunnerRelease(r) /\ WithinBounds

Spec == Init /\ [][Next]_vars

\* ------------------------------------------------------------------------
\* Specification SpecRetry: one feature task, failures of both kinds, the
\* two retry delays and manual retry
\* ------------------------------------------------------------------------
Feature1 == NewTask(1, "feature", route_task("auto", "feature", AllHealthy),
                    "medium", "standard", << >>, 0)

InitRetry ==
    /\ iso_accepts_z \in BOOLEAN
    /\ Started(AllHealthy, << Feature1 >>)

NextRetry ==
    \/ \E d \in {AUTO_RETRY_DELAY_SEC, RATE_LIMIT_RETRY_DELAY_SEC} :
          Tick(d) /\ WithinBounds
    \/ DispatchBegin /\ WithinBounds
    \/ DispatchAfterFallback /\ WithinBounds
    \/ DispatchAfterAssign /\ WithinBounds
    \/ \E r \in Running, s \in ReviewOutputs :
          RunnerComplete(r, {"c1"}, s, TRUE) /\ WithinBounds
    \/ \E r \in Running, e \in ErrorLogs :
          RunnerFail(r, e) /\ WithinBounds
    \/ \E r \in Releasing :
          RunnerRelease(r) /\ WithinBounds
    \/ \E tid \in TaskIds(tasks) :
          retry_task(tid) /\ WithinBounds

SpecRetry == InitRetry /\ [][NextRetry]_vars

\* ------------------------------------------------------------------------
\* Specification SpecHealth: one test task, silent workers, the health loop,
\* and completion / failure reports arriving over the worker protocol; the
\* claude CLI may be missing from the host
\* ------------------------------------------------------------------------
ClaudeMissing == [e \in Engines |-> e = "codex"]

InitHealth ==
    /\ iso_accepts_z = TRUE
    /\ \E cli \in {AllHealthy, ClaudeMissing} : Started(cli, << Test1 >>)

NextHealth ==
    \/ \E d \in {AUTO_RETRY_DELAY_SEC, WORKER_HEARTBEAT_TIMEOUT_SEC + 1} :
          Tick(d) /\ WithinBounds
    \/ HealthTick /\ WithinBounds
    \/ DispatchBegin /\ WithinBounds
    \/ DispatchAfterFallback /\ WithinBounds
    \/ DispatchAfterAssign /\ WithinBounds
    \/ \E r \in Running, c \in CommitSets, m \in BOOLEAN :
          RunnerComplete(r, c, << >>, m) /\ WithinBounds
    \/ \E r \in Running :
          RunnerFail(r, "other") /\ WithinBounds
    \/ \E r \in Releasing :
          RunnerRelease(r) /\ WithinBounds
    \/ \E p \in Reports(tasks), c \in CommitSets :
          complete_task(p.t, p.w, p.l, c, << >>) /\ WithinBounds
    \/ \E p \in Reports(tasks) :
          fail_task(p.t, p.w, p.l, "other") /\ WithinBounds

SpecHealth == InitHealth /\ [][NextHealth]_vars

\* ------------------------------------------------------------------------
\* Specification SpecReview: the review loop of one feature task, every
\* reviewer output, and verdicts submitted by hand over the API
\* ------------------------------------------------------------------------
\* reviewer outputs with an unparseable block, alone or around a valid one
AllReviewOutputs ==
    ReviewOutputs \cup
    { << [valid |-> FALSE, issues |-> << >>] >>,
      << [valid |-> TRUE, issues |-> << >>],
         [valid |-> FALSE, issues |-> << >>] >>,
      << [valid |-> FALSE, issues |-> << >>],
         [valid |-> TRUE, issues |-> << "low" >>] >> }

\* issue lists of a submitted verdict
SubmittedIssues == {<< >>, << "high" >>}

ReviewTaskIds(ts) == {ts[i].id : i \in {k \in 1..Len(ts) : ts[k].task_type = "review"}}

WithinReviewBounds ==
    /\ leases' <= MaxReviewLeases
    /\ Len(tasks') <= MaxReviewTasks
    /\ \A i \in 1..Len(tasks') : tasks'[i].review_round <= MaxRounds

WithinSubmitBounds ==
    /\ leases' <= MaxSubmitLeases
    /\ WithinReviewBounds

InitReview ==
    /\ iso_accepts_z = TRUE
    /\ Started(AllHealthy, << Feature1 >>)

NextReview ==
    \/ Tick(AUTO_RETRY_DELAY_SEC) /\ WithinSubmitBounds
    \/ DispatchBegin /\ WithinSubmitBounds
    \/ DispatchAfterFallback /\ WithinSubmitBounds
    \/ DispatchAfterAssign /\ WithinSubmitBounds
    \/ \E r \in Running, s \in AllReviewOutputs :
          RunnerComplete(r, {"c1"}, s, TRUE) /\ WithinSubmitBounds
    \/ \E r \in Releasing :
          RunnerRelease(r) /\ WithinSubmitBounds
    \/ \E tid \in ReviewTaskIds(tasks), issues \in SubmittedIssues :
          submit_review(tid, issues) /\ WithinSubmitBounds

SpecReview == InitReview /\ [][NextReview]_vars

\* ------------------------------------------------------------------------
\* Specification SpecReviewAuto: the review loop of one feature task left to
\* the dispatch loop and the runners, nobody calling the API
\* ------------------------------------------------------------------------
NextReviewAuto ==
    \/ DispatchBegin /\ WithinReviewBounds
    \/ DispatchAfterFallback /\ WithinReviewBounds
    \/ DispatchAfterAssign /\ WithinReviewBounds
    \/ \E r \in Running, s \in AllReviewOutputs :
          RunnerComplete(r, {"c1"}, s, TRUE) /\ WithinReviewBounds
    \/ \E r \in Releasing :
          RunnerRelease(r) /\ WithinReviewBounds

SpecReviewAuto == InitReview /\ [][NextReviewAuto]_vars

\* ------------------------------------------------------------------------
\* Specification SpecSubtasks: one test task that is decomposed by hand into
\* test sub-tasks, which are dispatched, completed and deleted
\* ------------------------------------------------------------------------
SubTask == [task_type |-> "test", engine |-> "auto", priority |-> "medium"]

Decompositions == {<< >>, << SubTask >>, << SubTask, SubTask >>}

\* ids of the tasks that have not been decomposed
WholeIds(ts) ==
    {ts[i].id : i \in {k \in 1..Len(ts) :
                          ts[k].parent_task_id = 0 /\ ts[k].sub_tasks = << >>}}

SubTaskIds(ts) ==
    {ts[i].id : i \in {k \in 1..Len(ts) : ts[k].parent_task_id # 0}}

WithinSubtaskBounds ==
    /\ WithinBounds
    /\ leases' <= MaxSubtaskLeases
    /\ \A i \in 1..Len(tasks') : tasks'[i].id <= MaxTaskId

InitSubtasks ==
    /\ iso_accepts_z = TRUE
    /\ Started(AllHealthy, << Test1 >>)

NextSubtasks ==
    \/ DispatchBegin /\ WithinSubtaskBounds
    \/ DispatchAfterFallback /\ WithinSubtaskBounds
    \/ DispatchAfterAssign /\ WithinSubtaskBounds
    \/ \E r \in Running :
          RunnerComplete(r, {"c1"}, << >>, TRUE) /\ WithinSubtaskBounds
    \/ \E r \in Releasing :
          RunnerRelease(r) /\ WithinSubtaskBounds
    \/ \E tid \in WholeIds(tasks), subs \in Decompositions :
          decompose_task(tid, subs) /\ WithinSubtaskBounds
    \/ \E tid \in SubTaskIds(tasks) :
          delete_task(tid) /\ WithinSubtaskBounds

SpecSubtasks == InitSubtasks /\ [][NextSubtasks]_vars

\* ------------------------------------------------------------------------
\* Specification SpecOrder: tasks of several SLA tiers, priorities and kinds
\* are created over time, after a first test task, while the dispatch loop
\* and the runners work
\* ------------------------------------------------------------------------
CreatedTypes == {"plan", "review"}
\* (priority, sla_tier) of the tasks created
CreatedRanks == {<< "high", "standard" >>, << "low", "urgent" >>}

WithinOrderBounds ==
    /\ WithinBounds
    /\ leases' <= MaxOrderLeases

InitOrder ==
    /\ iso_accepts_z = TRUE
    /\ Started(AllHealthy, << Test1 >>)

NextOrder ==
    \/ Tick(1) /\ WithinOrderBounds
    \/ \E ttype \in CreatedTypes, rank \in CreatedRanks :
          create_task(ttype, "auto", rank[1], rank[2], << >>)
              /\ WithinOrderBounds
    \/ DispatchBegin /\ WithinOrderBounds
    \/ DispatchAfterFallback /\ WithinOrderBounds
    \/ DispatchAfterAssign /\ WithinOrderBounds
    \/ \E r \in Running :
          RunnerComplete(r, {"c1"}, << >>, TRUE) /\ WithinOrderBounds
    \/ \E r \in Releasing :
          RunnerRelease(r) /\ WithinOrderBounds

SpecOrder == InitOrder /\ [][NextOrder]_vars

\* ------------------------------------------------------------------------
\* Specification SpecDisable: two test tasks whose runs all fail, the retry
\* delay and the health loop; the claude CLI may be missing from the host
\* ------------------------------------------------------------------------
Test2 == NewTask(2, "test", route_task("auto", "test", AllHealthy),
                 "medium", "standard", << >>, 1)

WithinDisableBounds ==
    /\ leases' <= MaxDisableLeases
    /\ \A w \in WorkerIds :
          workers'[w].consecutive_failures <= MaxDisableFailures

InitDisable ==
    /\ iso_accepts_z = TRUE
    /\ \E cli \in {AllHealthy, ClaudeMissing} : Started(cli, << Test2, Test1 >>)

NextDisable ==
    \/ Tick(AUTO_RETRY_DELAY_SEC) /\ WithinDisableBounds
    \/ HealthTick /\ WithinDisableBounds
    \/ DispatchBegin /\ WithinDisableBounds
    \/ DispatchAfterFallback /\ WithinDisableBounds
    \/ DispatchAfterAssign /\ WithinDisableBounds
    \/ \E r \in Running :
          RunnerFail(r, "other") /\ WithinDisableBounds
    \/ \E r \in Releasing :
          RunnerRelease(r) /\ WithinDisableBounds

SpecDisable == InitDisable /\ [][NextDisable]_vars

\* ------------------------------------------------------------------------
\* Specification SpecPlan: one feature task created in plan mode and held in
\* plan_review with the plan its generation left, approved or rejected by
\* hand, its sub-tasks dispatched and completed
\* ------------------------------------------------------------------------
NineLines == [k \in 1..9 |-> "feature"]

PlanContents ==
    { << >>, << "blank" >>, << "short" >>, << "review" >>,
      << "review", "review" >>,
      << "short", "review", "blank", "feature" >>, NineLines }

Feedbacks == {<< >>, << "review" >>}

PlanTask1(plan, dor) ==
    [Feature1 EXCEPT !.status = "plan_review", !.plan_mode = TRUE,
                     !.dor_fields = dor, !.plan_content = plan]

WithinPlanBounds ==
    /\ leases' <= MaxPlanLeases
    /\ Len(tasks') <= MaxPlanTasks
    /\ \A w \in WorkerIds : workers'[w].total_tasks_completed <= MaxCompleted

InitPlan ==
    /\ iso_accepts_z = TRUE
    /\ \E plan \in PlanContents, dor \in BOOLEAN :
          Started(AllHealthy, << PlanTask1(plan, dor) >>)

NextPlan ==
    \/ \E tid \in TaskIds(tasks), approved \in BOOLEAN, feedback \in Feedbacks :
          approve_plan(tid, approved, feedback) /\ WithinPlanBounds
    \/ DispatchBegin /\ WithinPlanBounds
    \/ DispatchAfterFallback /\ WithinPlanBounds
    \/ DispatchAfterAssign /\ WithinPlanBounds
    \/ \E r \in Running, s \in ReviewOutputs :
          RunnerComplete(r, {"c1"}, s, TRUE) /\ WithinPlanBounds
    \/ \E r \in Releasing :
          RunnerRelease(r) /\ WithinPlanBounds

SpecPlan == InitPlan /\ [][NextPlan]_vars

\* ------------------------------------------------------------------------
\* Specification SpecManual: the execution protocol driven by hand, without
\* the dispatcher: a task held in plan_review and a feature task that
\* depends on it, dispatched, claimed and kept alive through the routes,
\* run to completion or failure, retried by hand
\* ------------------------------------------------------------------------
\* lease_id of a heartbeat request: none, or the first lease handed out
HeartbeatLeases == {0, 1}

WithinManualBounds ==
    /\ leases' <= MaxManualLeases
    /\ ticks' <= MaxManualTicks
    /\ Len(tasks') <= MaxManualTasks
    /\ \A w \in WorkerIds :
          /\ workers'[w].total_tasks_completed <= MaxCompleted
          /\ workers'[w].consecutive_failures <= MaxManualFailures

InitManual ==
    /\ iso_accepts_z = TRUE
    /\ \E dor \in BOOLEAN :
          Started(AllHealthy, << Feature2(<< 1 >>), PlanTask1(<< "feature" >>, dor) >>)

NextManual ==
    \/ Tick(WORKER_HEARTBEAT_TIMEOUT_SEC + 1) /\ WithinManualBounds
    \/ HealthTick /\ WithinManualBounds
    \/ \E tid \in TaskIds(tasks) :
          dispatch_task(tid) /\ WithinManualBounds
    \/ \E tid \in TaskIds(tasks), w \in WorkerIds :
          claim_task(tid, w) /\ WithinManualBounds
    \/ \E tid \in TaskIds(tasks), w \in WorkerIds, lease \in HeartbeatLeases :
          heartbeat_task(tid, w, lease) /\ WithinManualBounds
    \/ \E tid \in TaskIds(tasks), approved \in BOOLEAN :
          approve_plan(tid, approved, << >>) /\ WithinManualBounds
    \/ \E tid \in TaskIds(tasks) :
          retry_task(tid) /\ WithinManualBounds
    \/ \E r \in Running :
          RunnerComplete(r, {"c1"}, << >>, TRUE) /\ WithinManualBounds
    \/ \E r \in Running :
          RunnerFail(r, "other") /\ WithinManualBounds
    \/ \E r \in Releasing :
          RunnerRelease(r) /\ WithinManualBounds

SpecManual == InitManual /\ [][NextManual]_vars

\* ------------------------------------------------------------------------
\* Specification SpecDelete: the tasks of SpecManual, approved into
\* sub-tasks, dispatched and claimed by hand, run, and deleted
\* ------------------------------------------------------------------------
WithinDeleteBounds ==
    /\ WithinManualBounds
    /\ leases' <= MaxDeleteLeases

NextDelete ==
    \/ \E tid \in TaskIds(tasks), approved \in BOOLEAN :
          approve_plan(tid, approved, << >>) /\ WithinDeleteBounds
    \/ \E tid \in TaskIds(tasks) :
          dispatch_task(tid) /\ WithinDeleteBounds
    \/ \E tid \in TaskIds(tasks), w \in WorkerIds :
          claim_task(tid, w) /\ WithinDeleteBounds
    \/ \E tid \in TaskIds(tasks) :
          delete_task(tid) /\ WithinDeleteBounds
    \/ \E r \in Running :
          RunnerComplete(r, {"c1"}, << >>, TRUE) /\ WithinDeleteBounds
    \/ \E r \in Running :
          RunnerFail(r, "other") /\ WithinDeleteBounds
    \/ \E r \in Releasing :
          RunnerRelease(r) /\ WithinDeleteBounds

SpecDelete == InitManual /\ [][NextDelete]_vars

\* ------------------------------------------------------------------------
\* Specification SpecEvents: the events list of a document that already
\* holds almost EVENTS_CAP events, one emission at a time
\* ------------------------------------------------------------------------
EmittedTypes == {"task_created", "alert_triggered"}

\* the list after k emissions, none evicted
EventsAfter(k) == [n \in 1..k |-> [n |-> n, type |-> "task_created"]]

Emit(type) ==
    /\ events' = emit_event_list(events, type)
    /\ UNCHANGED << project, now, ticks, iso_accepts_z, cli_path, tasks, workers,
                    engine_health, execs, runners, disp, leases >>

WithinEventsBounds ==
    events'[Len(events')].n <= EVENTS_CAP + MaxOverflow

InitEvents ==
    /\ iso_accepts_z = TRUE
    /\ now = Boot
    /\ ticks = 0
    /\ cli_path = AllHealthy
    /\ workers = [w \in WorkerIds |-> NewWorker(TRUE, Boot)]
    /\ engine_health = AllHealthy
    /\ execs = {}
    /\ runners = EmptyBag
    /\ disp = DispIdle
    /\ leases = 0
    /\ tasks = << >>
    /\ project = NewProject("active")
    /\ \E k \in (EVENTS_CAP - MaxHeadroom)..EVENTS_CAP : events = EventsAfter(k)

NextEvents ==
    \E type \in EmittedTypes : Emit(type) /\ WithinEventsBounds

SpecEvents == InitEvents /\ [][NextEvents]_vars

\* ------------------------------------------------------------------------
\* Specification SpecProject: a project created in one of the statuses
\* create_project accepts, with no task yet; tasks are created, deleted,
\* dispatched by hand and run, and the project's status is patched
\* ------------------------------------------------------------------------
CreatedStatuses == {"draft", "active", "on_hold"}

WithinProjectBounds ==
    /\ leases' <= MaxProjectLeases
    /\ Len(tasks') <= MaxProjectTasks
    /\ \A i \in 1..Len(tasks') : tasks'[i].id <= MaxTaskId

InitProject ==
    /\ iso_accepts_z = TRUE
    /\ now = Boot
    /\ ticks = 0
    /\ cli_path = AllHealthy
    /\ workers = [w \in WorkerIds |-> NewWorker(TRUE, Boot)]
    /\ engine_health = AllHealthy
    /\ execs = {}
    /\ runners = EmptyBag
    /\ disp = DispIdle
    /\ leases = 0
    /\ tasks = << >>
    /\ events = {}
    /\ \E status \in CreatedStatuses : project = NewProject(status)

NextProject ==
    \/ \E next_status \in ProjectStatuses :
          update_project(next_status) /\ WithinProjectBounds
    \/ create_task("plan", "auto", "medium", "standard", << >>)
          /\ WithinProjectBounds
    \/ \E tid \in TaskIds(tasks) :
          delete_task(tid) /\ WithinProjectBounds
    \/ \E tid \in TaskIds(tasks) :
          dispatch_task(tid) /\ WithinProjectBounds
    \/ \E r \in Running :
          RunnerComplete(r, {"c1"}, << >>, TRUE) /\ WithinProjectBounds
    \/ \E r \in Running :
          RunnerFail(r, "other") /\ WithinProjectBounds
    \/ \E r \in Releasing :
          RunnerRelease(r) /\ WithinProjectBounds

SpecProject == InitProject /\ [][NextProject]_vars

\* ------------------------------------------------------------------------
\* Specification SpecExclusive: the two tasks of SpecDisable under the
\* dispatcher, claims by hand, silent workers timed out and recovered by the
\* health loop, and the runners' callbacks
\* ------------------------------------------------------------------------
WithinExclusiveBounds ==
    /\ WithinBounds
    /\ leases' <= MaxExclusiveLeases

NextExclusive ==
    \/ Tick(WORKER_HEARTBEAT_TIMEOUT_SEC + 1) /\ WithinExclusiveBounds
    \/ HealthTick /\ WithinExclusiveBounds
    \/ DispatchBegin /\ WithinExclusiveBounds
    \/ DispatchAfterFallback /\ WithinExclusiveBounds
    \/ DispatchAfterAssign /\ WithinExclusiveBounds
    \/ \E tid \in TaskIds(tasks), w \in WorkerIds :
          claim_task(tid, w) /\ WithinExclusiveBounds
    \/ \E r \in Running :
          RunnerComplete(r, {"c1"}, << >>, TRUE) /\ WithinExclusiveBounds
    \/ \E r \in Running :
          RunnerFail(r, "other") /\ WithinExclusiveBounds
    \/ \E r \in Releasing :
          RunnerRelease(r) /\ WithinExclusiveBounds

SpecExclusive == InitDisable /\ [][NextExclusive]_vars

\* ------------------------------------------------------------------------
\* Specification SpecLive: the task of SpecHealth under the dispatch loop,
\* the health loop and the runner's callbacks, all of them scheduled by the
\* event loop: a cycle that has started goes on after each await, both
\* loops come round again, and a runner that was started ends and reaches
\* its finally clause
\* ------------------------------------------------------------------------
RunnerEnds ==
    \E r \in Running :
        \/ RunnerComplete(r, {"c1"}, << >>, TRUE) /\ WithinBounds
        \/ RunnerFail(r, "other") /\ WithinBounds

RunnerReleases == \E r \in Releasing : RunnerRelease(r) /\ WithinBounds

NextLive ==
    \/ Tick(WORKER_HEARTBEAT_TIMEOUT_SEC + 1) /\ WithinBounds
    \/ HealthTick /\ WithinBounds
    \/ DispatchBegin /\ WithinBounds
    \/ DispatchAfterFallback /\ WithinBounds
    \/ DispatchAfterAssign /\ WithinBounds
    \/ RunnerEnds
    \/ RunnerReleases

SpecLive ==
    /\ InitHealth
    /\ [][NextLive]_vars
    /\ WF_vars(HealthTick /\ WithinBounds)
    /\ WF_vars(DispatchBegin /\ WithinBounds)
    /\ WF_vars(DispatchAfterFallback /\ WithinBounds)
    /\ WF_vars(DispatchAfterAssign /\ WithinBounds)
    /\ WF_vars(RunnerEnds)
    /\ WF_vars(RunnerReleases)

\* ------------------------------------------------------------------------
\* Specification SpecStall: the task of SpecHealth run by workers that may
\* fall silent or send heartbeats, with the clock advanced by the cooldown
\* and the heartbeat timeout and by one second less or more
\* ------------------------------------------------------------------------
StallDelays ==
    { WORKER_COOLDOWN_SEC - 1, WORKER_COOLDOWN_SEC,
      WORKER_HEARTBEAT_TIMEOUT_SEC, WORKER_HEARTBEAT_TIMEOUT_SEC + 1 }

WithinStallBounds ==
    /\ WithinBounds
    /\ leases' <= MaxStallLeases

NextStall ==
    \/ \E d \in StallDelays : Tick(d) /\ WithinStallBounds
    \/ HealthTick /\ WithinStallBounds
    \/ DispatchBegin /\ WithinStallBounds
    \/ DispatchAfterFallback /\ WithinStallBounds
    \/ DispatchAfterAssign /\ WithinStallBounds
    \/ \E tid \in TaskIds(tasks), w \in WorkerIds, lease \in HeartbeatLeases :
          heartbeat_task(tid, w, lease) /\ WithinStallBounds
    \/ \E r \in Running :
          RunnerComplete(r, {"c1"}, << >>, TRUE) /\ WithinStallBounds
    \/ \E r \in Running :
          RunnerFail(r, "other") /\ WithinStallBounds
    \/ \E r \in Releasing :
          RunnerRelease(r) /\ WithinStallBounds

SpecStall == InitHealth /\ [][NextStall]_vars

\* ------------------------------------------------------------------------
\* Specification SpecDeps: a feature task, tasks created with dependencies,
\* deletion of any task, and the review children that completions spawn
\* ------------------------------------------------------------------------
\* depends_on of a creation request: none, or one id that may be unknown
DependsOnInputs == {<< >>, << 1 >>, << MaxTaskId + 1 >>}

WithinDepsBounds ==
    /\ WithinSubtaskBounds
    /\ leases' <= MaxDepsLeases

InitDeps ==
    /\ iso_accepts_z = TRUE
    /\ Started(AllHealthy, << Feature1 >>)

NextDeps ==
    \/ \E deps \in DependsOnInputs :
          create_task("plan", "auto", "medium", "standard", deps)
              /\ WithinDepsBounds
    \/ \E tid \in TaskIds(tasks) :
          delete_task(tid) /\ WithinDepsBounds
    \/ DispatchBegin /\ WithinDepsBounds
    \/ DispatchAfterFallback /\ WithinDepsBounds
    \/ DispatchAfterAssign /\ WithinDepsBounds
    \/ \E r \in Running :
          RunnerComplete(r, {"c1"}, << >>, TRUE) /\ WithinDepsBounds
    \/ \E r \in Releasing :
          RunnerRelease(r) /\ WithinDepsBounds

SpecDeps == InitDeps /\ [][NextDeps]_vars

\* ------------------------------------------------------------------------
\* Properties
\* ------------------------------------------------------------------------
\* engine recorded in the latest attempt of a task that has attempts
LatestEngine(task) == task.attempts[Len(task.attempts)].engine

\* C1: whenever no dispatch cycle is in flight, every task the document holds
\* as in_progress names an assigned worker whose current_task_id is that task
\* and whose lease_id is the lease of the task's latest attempt.
C1_LeaseBinding ==
    disp.pc = "idle" =>
        \A i \in 1..Len(tasks) :
            tasks[i].status = "in_progress" =>
                LET w == tasks[i].assigned_worker IN
                /\ w # 0
                /\ workers[w].current_task_id = tasks[i].id
                /\ workers[w].lease_id = LatestLease(tasks[i])

\* C2: a completion or failure report that carries a lease other than the
\* lease of the task's latest attempt changes neither the document nor the
\* worker pool.
C2_StaleReportNoOp ==
    [][ \A p \in Reports(tasks), c \in CommitSets :
            ( /\ p.l # LatestLease(tasks[find_task(tasks, p.t)])
              /\ \/ complete_task(p.t, p.w, p.l, c, << >>)
                 \/ fail_task(p.t, p.w, p.l, "other") )
            => UNCHANGED << project, tasks, events, workers >> ]_vars

\* C3: a step of the dispatch cycle never takes anything out of the persisted
\* document: no task and no event disappears, and a task the cycle cannot have
\* leased or rolled up (its persisted status is neither pending nor
\* blocked_by_subtasks) keeps its persisted record.
C3_NoLostUpdate ==
    [][ disp' # disp =>
            /\ Len(tasks') = Len(tasks)
            /\ events \subseteq events'
            /\ \A i \in 1..Len(tasks) :
                  tasks[i].status \notin {"pending", "blocked_by_subtasks"}
                      => tasks'[i] = tasks[i] ]_vars

\* C4: when a completion report has been accepted, delivering the same report
\* once more changes neither the task list nor the worker's
\* total_tasks_completed.
C4_CompleteIdempotent ==
    [][ \A p \in Reports(tasks), c \in CommitSets :
            ( /\ complete_task(p.t, p.w, p.l, c, << >>)
              /\ _complete_task_internal(tasks, events, workers, execs,
                                         p.t, p.w, p.l, c, << >>, now).ok )
            => LET again == _complete_task_internal(
                                tasks', events', workers', execs',
                                p.t, p.w, p.l, c, << >>, now')
               IN /\ again.tasks = tasks'
                  /\ again.workers[p.w].total_tasks_completed
                        = workers'[p.w].total_tasks_completed ]_vars

\* C5: in the persisted document a task has an assigned_worker exactly when
\* its status is in_progress.
C5_AssignedIffInProgress ==
    \A i \in 1..Len(tasks) :
        (tasks[i].assigned_worker # 0) <=> (tasks[i].status = "in_progress")

\* failed attempts on a task's record
FailedAttempts(task) ==
    Cardinality({k \in 1..Len(task.attempts) : task.attempts[k].status = "failed"})

C6_Inv ==
    \A i \in 1..Len(tasks) :
        /\ tasks[i].retry_count <= tasks[i].max_retries
        /\ << "retry_scheduled", tasks[i].id >> \notin events
              => FailedAttempts(tasks[i]) <= tasks[i].max_retries

C6_Step ==
    \A r \in Running, e \in ErrorLogs :
        ( /\ RunnerFail(r, e)
          /\ _fail_task_internal(tasks, events, workers, execs, r.t, r.w,
                                 workers[r.w].lease_id, e, now).ok
          /\ tasks[find_task(tasks, r.t)].status = "in_progress" )
        => LET old == tasks[find_task(tasks, r.t)]
               new == tasks'[find_task(tasks', r.t)]
           IN IF old.retry_count + 1 < old.max_retries
              THEN /\ new.status = "pending"
                   /\ new.assigned_worker = 0
                   /\ new.started_at = NoTime
                   /\ new.retry_after = now + RetryDelay(e)
                   /\ new.retry_count = old.retry_count + 1
              ELSE new.status = "failed"

\* C6: a failure accepted for an in_progress task with retry_count r makes it
\* pending, with assigned_worker and started_at cleared and retry_after set to
\* the failure time plus the delay of its kind, when r + 1 < max_retries, and
\* failed otherwise; retry_count never exceeds max_retries, and a task that was
\* never manually retried has at most max_retries failed attempts.
C6_FailurePolicy == []C6_Inv /\ [][C6_Step]_vars

C6_Witness ==
    \E i \in 1..Len(tasks) :
        /\ tasks[i].status = "failed"
        /\ tasks[i].retry_count = tasks[i].max_retries
        /\ FailedAttempts(tasks[i]) = tasks[i].max_retries
        /\ << "auto_retry_scheduled", tasks[i].id >> \in events

\* C7: a task that is in_progress after an auto-retried failure was leased no
\* earlier than its retry_after.
C7_RetryGate ==
    \A i \in 1..Len(tasks) :
        ( /\ tasks[i].status = "in_progress"
          /\ tasks[i].retry_after # NoTime )
        => tasks[i].started_at >= tasks[i].retry_after

\* the document a dispatch step leaves behind: the cycle's own copy while it
\* is suspended, the persisted one once it has ended
CycleDoc == IF disp.pc = "idle" THEN tasks ELSE disp.tasks

\* C8: when the dispatch loop issues a lease, every dependency of the leased
\* task is in the document, and is completed (reviewing or completed when the
\* leased task is a review task), both in the cycle's copy of the document
\* and in the persisted one.
C8_DependencyGate ==
    [][ leases' = leases + 1 =>
            LET w == CHOOSE w \in WorkerIds : workers'[w].lease_id = leases'
                tid == workers'[w].current_task_id
                task == CycleDoc'[find_task(CycleDoc', tid)]
                ready == IF task.task_type = "review"
                         THEN {"reviewing", "completed"} ELSE {"completed"}
            IN \A k \in 1..Len(task.depends_on) :
                  /\ find_task(CycleDoc', task.depends_on[k]) # 0
                  /\ CycleDoc'[find_task(CycleDoc', task.depends_on[k])].status
                        \in ready
                  /\ find_task(tasks, task.depends_on[k]) # 0
                  /\ tasks[find_task(tasks, task.depends_on[k])].status \in ready
      ]_vars

C8_Witness ==
    \E i \in 1..Len(tasks) :
        /\ tasks[i].task_type # "review"
        /\ tasks[i].depends_on # << >>
        /\ tasks[i].status = "in_progress"

\* C9: a review task is only ever leased to a worker of its routed engine:
\* every attempt on its record ran on that engine, it carries no
\* fallback_reason, and no engine_fallback event names it, in the persisted
\* document and in the copy of a cycle in flight.
C9_ReviewNoFallback ==
    \A doc \in {tasks, disp.tasks} :
        \A i \in 1..Len(doc) :
            doc[i].task_type = "review" =>
                /\ doc[i].fallback_reason = "none"
                /\ << "engine_fallback", doc[i].id >> \notin events \cup disp.events
                /\ \A k \in 1..Len(doc[i].attempts) :
                      doc[i].attempts[k].engine = doc[i].routed_engine

\* a cycle in flight has passed over a ready review task (one that never
\* failed, so that no retry delay held it back) for want of an idle worker of
\* its engine, and then leased a task sorted after it to a worker of the
\* other engine, which was therefore idle when the review task was passed over
C9_Witness ==
    /\ disp.pc = "assigned"
    /\ \E i, j \in 1..Len(disp.tasks) :
          /\ disp.tasks[i].task_type = "review"
          /\ disp.tasks[i].status = "pending"
          /\ disp.tasks[i].assigned_worker = 0
          /\ disp.tasks[i].retry_after = NoTime
          /\ dependencies_satisfied(disp.tasks[i], disp.tasks)
          /\ disp.tasks[j].status = "in_progress"
          /\ LatestLease(disp.tasks[j]) = leases
          /\ KeyLess(disp.tasks[i], disp.tasks[j])
          /\ LatestEngine(disp.tasks[j]) # disp.tasks[i].routed_engine

\* C10: a review child created by the automatic spawn is routed to an engine
\* other than the one recorded in its parent's latest attempt.
C10_ReviewEngineDiffers ==
    [][ ( /\ Len(tasks') = Len(tasks) + 1
          /\ tasks'[1].task_type = "review" )
        => LET p == find_task(tasks', tasks'[1].parent_task_id) IN
           /\ p # 0
           /\ tasks'[p].attempts # << >>
           /\ tasks'[1].routed_engine # LatestEngine(tasks'[p]) ]_vars

\* C11: across the verdicts applied to a task its review_round never
\* decreases and never exceeds MAX_REVIEW_ROUNDS.
C11_Inv ==
    \A i \in 1..Len(tasks) : tasks[i].review_round <= MAX_REVIEW_ROUNDS

C11_Step ==
    \A i \in 1..Len(tasks) :
        LET j == find_task(tasks', tasks[i].id) IN
        j # 0 => tasks'[j].review_round >= tasks[i].review_round

C11_ReviewRoundBounded == []C11_Inv /\ [][C11_Step]_vars

\* a step of the dispatch loop or of a runner, as opposed to a call of the API
AutomatedStep ==
    \/ DispatchBegin
    \/ DispatchAfterFallback
    \/ DispatchAfterAssign
    \/ \E r \in Running, s \in AllReviewOutputs : RunnerComplete(r, {"c1"}, s, TRUE)
    \/ \E r \in Releasing : RunnerRelease(r)

Escalated(task) ==
    /\ task.status = "plan_review"
    /\ task.blocked_reason = "max_review_rounds_exceeded"

\* C12: a task held in plan_review with blocked_reason
\* max_review_rounds_exceeded keeps that status across every step of the
\* dispatch loop and of the runners (completion of a review child included).
C12_EscalationFixedPoint ==
    [][ AutomatedStep =>
            \A i \in 1..Len(tasks) :
                Escalated(tasks[i]) =>
                    LET j == find_task(tasks', tasks[i].id) IN
                    j # 0 /\ tasks'[j].status = "plan_review" ]_vars

\* a step that raises the review_round of task i: a changes-requested
\* verdict has been applied to it
C13_Step ==
    \A i \in 1..Len(tasks) :
        LET j == find_task(tasks', tasks[i].id)
            r == tasks[i].review_round
        IN
        (j # 0 /\ tasks'[j].review_round > r) =>
            /\ tasks'[j].review_round = r + 1
            /\ IF r + 1 < MAX_REVIEW_ROUNDS
               THEN /\ tasks'[j].status = "pending"
                    /\ tasks'[j].assigned_worker = 0
                    /\ tasks'[j].started_at = NoTime
                    /\ tasks'[j].review_feedback
               ELSE Escalated(tasks'[j])

\* the tasks that are reviewed are executed at most MAX_REVIEW_ROUNDS times
C13_Inv ==
    \A i \in 1..Len(tasks) :
        tasks[i].task_type # "review" =>
            Len(tasks[i].attempts) <= MAX_REVIEW_ROUNDS

\* C13: each changes-requested verdict below the cap returns the parent to
\* pending with assigned_worker and started_at cleared, review_round one
\* higher and the feedback set; the verdict that reaches MAX_REVIEW_ROUNDS
\* escalates it to plan_review with max_review_rounds_exceeded instead, so
\* the loop never executes the parent a fourth time.
C13_FixLoopBounded == []C13_Inv /\ [][C13_Step]_vars

\* the third changes-requested verdict has escalated the parent after its
\* third execution
C13_Witness ==
    \E i \in 1..Len(tasks) :
        /\ Escalated(tasks[i])
        /\ tasks[i].review_round = MAX_REVIEW_ROUNDS
        /\ Len(tasks[i].attempts) = MAX_REVIEW_ROUNDS

\* the outcome of the completion callback of runner r with output s
CompletionOf(r, s) ==
    _complete_task_internal(tasks, events, workers, execs, r.t, r.w,
                            workers[r.w].lease_id, {"c1"}, s, now)

\* index of the parent of task tid in the document, 0 when it has none
ParentOf(ts, tid) ==
    LET i == find_task(ts, tid) IN
    IF i = 0 \/ ts[i].parent_task_id = 0 THEN 0
    ELSE find_task(ts, ts[i].parent_task_id)

\* reviewer outputs without a fenced block or with an invalid last block
Unparseable == {s \in AllReviewOutputs : s = << >> \/ ~s[Len(s)].valid}

\* C14: when the completion of a review child is accepted and its output has
\* no fenced json block, or the last block is not valid json, the parent is
\* moved to plan_review with blocked_reason review_parse_failed, and is
\* neither approved nor completed by that completion.
C14_ParseFailureEscalates ==
    [][ \A r \in Running, s \in Unparseable :
            ( /\ RunnerComplete(r, {"c1"}, s, TRUE)
              /\ IsReview(tasks, r.t)
              /\ CompletionOf(r, s).ok
              /\ ParentOf(tasks, r.t) # 0 ) =>
                LET p == ParentOf(tasks', r.t) IN
                /\ p # 0
                /\ tasks'[p].status = "plan_review"
                /\ tasks'[p].blocked_reason = "review_parse_failed"
                /\ tasks'[p].review_status # "approved" ]_vars

\* a review child has completed and its parent is held for parse failure
C14_Witness ==
    \E i \in 1..Len(tasks) :
        /\ tasks[i].task_type = "review"
        /\ tasks[i].status = "completed"
        /\ ParentOf(tasks, tasks[i].id) # 0
        /\ tasks[ParentOf(tasks, tasks[i].id)].status = "plan_review"
        /\ tasks[ParentOf(tasks, tasks[i].id)].blocked_reason = "review_parse_failed"

HasCritical(issues) ==
    \E k \in 1..Len(issues) : issues[k] \in {"critical", "high"}

\* what a verdict with these issues, applied in this step to the parent of
\* task tid, has to leave behind
VerdictApplied(tid, issues) ==
    LET p == ParentOf(tasks, tid)
        q == ParentOf(tasks', tid)
    IN
    /\ q # 0
    /\ IF HasCritical(issues)
       THEN tasks'[q].review_status # "approved"
       ELSE /\ tasks'[q].review_status = "approved"
            /\ tasks'[q].status = "completed"
            /\ tasks'[q].review_round = tasks[p].review_round
            /\ tasks[p].status = "completed" =>
                  tasks'[q].completed_at = tasks[p].completed_at

\* C15: a parsed verdict, whether it comes from the completion of a review
\* child or is submitted over the API, approves the parent (review_status
\* approved, status completed, review_round unchanged) exactly when none of
\* its issues is critical or high, and an approval leaves the completed_at of
\* a parent that is already completed as it is.
C15_ApprovalIffNoCritical ==
    [][ /\ \A r \in Running, s \in AllReviewOutputs \ Unparseable :
              ( /\ RunnerComplete(r, {"c1"}, s, TRUE)
                /\ IsReview(tasks, r.t)
                /\ CompletionOf(r, s).ok
                /\ ParentOf(tasks, r.t) # 0 ) =>
                    VerdictApplied(r.t, _parse_review_json(s).issues)
        /\ \A tid \in ReviewTaskIds(tasks), issues \in SubmittedIssues :
              ( /\ submit_review(tid, issues)
                /\ ParentOf(tasks, tid) # 0 ) =>
                    VerdictApplied(tid, issues) ]_vars

\* a verdict was applied after the parent had been completed and approved at
\* an earlier time, and the parent still carries the earlier completed_at
C15_Witness ==
    \E i \in 1..Len(tasks) :
        LET p == ParentOf(tasks, tasks[i].id) IN
        /\ tasks[i].task_type = "review"
        /\ p # 0
        /\ tasks[p].status = "completed"
        /\ tasks[p].review_status = "approved"
        /\ tasks[i].completed_at > tasks[p].completed_at

\* C16: a parent that is blocked_by_subtasks with all of its sub_tasks
\* completed when a dispatch cycle starts is completed in the persisted
\* document when that cycle has ended, whether or not the cycle found an idle
\* worker or leased a task. Stated on the states in which a cycle can start:
\* if the cycle that starts now runs to its end without suspending, the
\* document it leaves holds every such parent as completed.
C16_RollupNextCycle ==
    (disp.pc = "idle" /\ BeginOutcome.disp.pc = "idle") =>
        \A i \in 1..Len(tasks) :
            ( /\ tasks[i].status = "blocked_by_subtasks"
              /\ _all_subtasks_completed(tasks[i], tasks) ) =>
                LET j == find_task(BeginOutcome.tasks, tasks[i].id) IN
                j # 0 /\ BeginOutcome.tasks[j].status = "completed"

\* the task has a child in sub_tasks that is not completed
HasIncompleteChild(task, ts) ==
    \E k \in 1..Len(task.sub_tasks) :
        LET j == find_task(ts, task.sub_tasks[k]) IN
        j = 0 \/ ts[j].status # "completed"

\* C17: in every persisted document a task has status blocked_by_subtasks
\* exactly when its sub_tasks list holds at least one child that is not
\* completed (after decomposition, child completion and child deletion).
C17_BlockedIffIncompleteChild ==
    \A i \in 1..Len(tasks) :
        (tasks[i].status = "blocked_by_subtasks")
            <=> HasIncompleteChild(tasks[i], tasks)

\* the document a dispatch cycle works on: its copy while it is in flight
InMemory == IF disp.pc = "idle" THEN tasks ELSE disp.tasks

\* (sla_rank, priority_rank, created_at) of a before that of b, SLA tier
\* first, then priority, then age
KeyBefore(a, b) ==
    LET ka == << _sla_rank(a), priority_rank(a), a.created_at >>
        kb == << _sla_rank(b), priority_rank(b), b.created_at >>
    IN \E n \in 1..3 : ka[n] < kb[n] /\ \A m \in 1..(n - 1) : ka[m] = kb[m]

\* ids of the tasks this step leases
LeasedInStep ==
    {id \in TaskIds(InMemory) :
        LET i == find_task(InMemory, id)
            j == find_task(disp'.tasks, id)
        IN /\ j # 0
           /\ InMemory[i].status = "pending"
           /\ disp'.tasks[j].status = "in_progress"}

\* C18: within a dispatch cycle leases go out in ascending order of
\* (sla_rank, priority_rank, created_at): when a step of the cycle leases X,
\* no candidate of the cycle other than a review task with a key strictly
\* before X's is left without a lease; so with one idle worker an urgent/low
\* task is leased in preference to an older standard/high one.
C18_LeaseOrder ==
    [][ \A id \in LeasedInStep :
          LET x == disp'.tasks[find_task(disp'.tasks, id)] IN
          \A j \in 1..Len(disp'.tasks) :
              LET y == disp'.tasks[j] IN
              ~ ( /\ y.task_type # "review"
                  /\ IsCandidate(y, disp'.tasks, now)
                  /\ KeyBefore(y, x) ) ]_vars

\* a cycle that had one idle worker has leased an urgent/low task and left
\* an older standard/high candidate pending
C18_Witness ==
    /\ disp.pc = "assigned"
    /\ disp.idle = << >>
    /\ \E i, j \in 1..Len(disp.tasks) :
          LET x == disp.tasks[i]
              y == disp.tasks[j]
              k == find_task(tasks, x.id)
          IN /\ x.sla_tier = "urgent" /\ x.priority = "low"
             /\ x.status = "in_progress"
             /\ k # 0 /\ tasks[k].status = "pending"
             /\ y.sla_tier = "standard" /\ y.priority = "high"
             /\ y.task_type # "review"
             /\ y.created_at < x.created_at
             /\ IsCandidate(y, disp.tasks, now)
             /\ \A m \in 1..Len(disp.tasks) :
                   (m # i /\ disp.tasks[m].status = "in_progress") =>
                       LET o == find_task(tasks, disp.tasks[m].id) IN
                       o # 0 /\ tasks[o].status = "in_progress"

\* (sla_rank, priority_rank, created_at) of a and of b are the same
KeyEqual(a, b) ==
    /\ _sla_rank(a) = _sla_rank(b)
    /\ priority_rank(a) = priority_rank(b)
    /\ a.created_at = b.created_at

\* C19: the dispatch order is total, ties on (sla_rank, priority_rank,
\* created_at) going to the lower task id: when a step of a dispatch cycle
\* leases X, no candidate of the cycle other than a review task that has
\* the same key as X and a lower id is left without a lease, whatever the
\* order in which the tasks were put into the document.
C19_TieBreakByLowerId ==
    [][ \A id \in LeasedInStep :
          LET x == disp'.tasks[find_task(disp'.tasks, id)] IN
          \A j \in 1..Len(disp'.tasks) :
              LET y == disp'.tasks[j] IN
              ~ ( /\ y.task_type # "review"
                  /\ IsCandidate(y, disp'.tasks, now)
                  /\ KeyEqual(y, x)
                  /\ y.id < x.id ) ]_vars

\* C20: at most one runner is live per worker: no runner is launched for a
\* worker while a runner launched earlier for it has not finished, its
\* release callback included, under every interleaving of dispatch cycles
\* and failure handling.
C20_OneRunnerPerWorker ==
    \A r1 \in BagToSet(runners) :
        /\ CopiesIn(r1, runners) = 1
        /\ \A r2 \in BagToSet(runners) : r1.w = r2.w => r1 = r2

\* the worker's failure count has reached the ceiling
AtCeiling(wr) == wr.consecutive_failures >= WORKER_MAX_CONSECUTIVE_FAILURES

C21_Inv == \A w \in WorkerIds : AtCeiling(workers[w]) => workers[w].status # "idle"

C21_Step ==
    \A w \in WorkerIds :
        AtCeiling(workers[w]) =>
            workers'[w].lease_id \in {0, workers[w].lease_id}

\* C21: a worker whose consecutive_failures has reached
\* WORKER_MAX_CONSECUTIVE_FAILURES stays disabled: the health tick, failure
\* handling and runner release never leave it idle, and the dispatch loop
\* hands it no new lease.
C21_DisabledStaysDisabled == []C21_Inv /\ [][C21_Step]_vars

\* C22: a task's commit_ids never loses an entry across completions,
\* failures and re-dispatches: every hash the persisted task holds before a
\* step it still holds after it, so that commit_ids stays the union of the
\* hashes reported by the accepted completions.
C22_CommitIdsKept ==
    [][ \A i \in 1..Len(tasks) :
          LET j == find_task(tasks', tasks[i].id) IN
          j # 0 => tasks[i].commit_ids \subseteq tasks'[j].commit_ids ]_vars

C23_Inv ==
    \A i \in 1..Len(tasks) :
        /\ Len(tasks[i].attempts) >=
              tasks[i].retry_count
              + (IF tasks[i].status = "in_progress" THEN 1 ELSE 0)
        /\ \A k \in 1..Len(tasks[i].attempts) : tasks[i].attempts[k].attempt = k

C23_Step ==
    \A i \in 1..Len(tasks) :
        LET j == find_task(tasks', tasks[i].id) IN
        j # 0 =>
            /\ Len(tasks[i].attempts) <= Len(tasks'[j].attempts)
            /\ \A k \in 1..Len(tasks[i].attempts) :
                  /\ tasks'[j].attempts[k].attempt = tasks[i].attempts[k].attempt
                  /\ tasks'[j].attempts[k].lease_id = tasks[i].attempts[k].lease_id
                  /\ tasks'[j].attempts[k].worker_id = tasks[i].attempts[k].worker_id

\* C23: under dispatch, completion, failure and manual retry every persisted
\* task has at least retry_count attempts, plus one when it is in_progress;
\* attempts are numbered 1, 2, 3, ... in order and are only ever appended.
C23_AttemptsCoverRetries == []C23_Inv /\ [][C23_Step]_vars

\* a task is running its third attempt after two failed ones
C23_Witness ==
    \E i \in 1..Len(tasks) :
        /\ tasks[i].status = "in_progress"
        /\ tasks[i].retry_count = 2
        /\ Len(tasks[i].attempts) = 3
        /\ tasks[i].attempts[1].status = "failed"
        /\ tasks[i].attempts[2].status = "failed"

\* ids of the tasks this step puts into the document
CreatedInStep == TaskIds(tasks') \ TaskIds(tasks)

C24_Step ==
    \A tid \in TaskIds(tasks), feedback \in Feedbacks :
        approve_plan(tid, TRUE, feedback) =>
            LET i == find_task(tasks, tid)
                j == find_task(tasks', tid)
            IN
            /\ tasks[i].status = "plan_review"
            /\ j # 0
            /\ tasks'[j].status = "blocked_by_subtasks"
            /\ Cardinality(CreatedInStep) \in 1..8
            /\ \A id \in CreatedInStep :
                  LET c == tasks'[find_task(tasks', id)] IN
                  /\ c.status = "pending"
                  /\ c.parent_task_id = tid
                  /\ \E k \in 1..Len(tasks'[j].sub_tasks) :
                        tasks'[j].sub_tasks[k] = id

C24_Inv ==
    \A i \in 1..Len(tasks) :
        tasks[i].status = "blocked_by_subtasks" => tasks[i].sub_tasks # << >>

\* C24: approving the plan of a task in plan_review moves it to
\* blocked_by_subtasks and creates between 1 and 8 pending sub-tasks, each
\* with the task as parent_task_id and listed in its sub_tasks; the parent is
\* never blocked_by_subtasks with an empty sub_tasks list.
C24_ApprovalDecomposes == []C24_Inv /\ [][C24_Step]_vars

\* a plan of nine usable lines has been approved into eight sub-tasks
C24_Witness ==
    \E i \in 1..Len(tasks) :
        /\ tasks[i].status = "blocked_by_subtasks"
        /\ Len(Candidates(tasks[i].plan_content)) = 9
        /\ Len(tasks[i].sub_tasks) = 8
        /\ \A k \in 1..8 :
              LET c == find_task(tasks, tasks[i].sub_tasks[k]) IN
              c # 0 /\ tasks[c].parent_task_id = tasks[i].id

\* C25: manual retry is accepted only for a task whose status is failed; it
\* sets the status to pending with retry_count 0 and no assigned worker and
\* touches no other task and no worker, so that the task is auto-retried
\* again on its next failure.
C25_ManualRetryOnlyFailed ==
    [][ \A tid \in TaskIds(tasks) :
          retry_task(tid) =>
              LET i == find_task(tasks, tid) IN
              /\ tasks[i].status = "failed"
              /\ tasks'[i].status = "pending"
              /\ tasks'[i].retry_count = 0
              /\ tasks'[i].assigned_worker = 0
              /\ RetryAllowed(tasks'[i].retry_count + 1, tasks'[i].max_retries)
              /\ Len(tasks') = Len(tasks)
              /\ \A k \in 1..Len(tasks) : k # i => tasks'[k] = tasks[k]
              /\ workers' = workers ]_vars

\* a task that had used up its retries was retried by hand and is running
\* its next attempt with a retry count of zero
C25_Witness ==
    \E i \in 1..Len(tasks) :
        /\ tasks[i].status = "in_progress"
        /\ tasks[i].retry_count = 0
        /\ Len(tasks[i].attempts) = DEFAULT_MAX_RETRIES + 1
        /\ \A k \in 1..DEFAULT_MAX_RETRIES :
              tasks[i].attempts[k].status = "failed"
        /\ << "retry_scheduled", tasks[i].id >> \in events

\* the task has a review child that is neither completed nor failed
OpenReviewChild(ts, id) ==
    \E k \in 1..Len(ts) :
        /\ ts[k].parent_task_id = id
        /\ ts[k].task_type = "review"
        /\ ts[k].status # "completed"
        /\ ts[k].status # "failed"

\* C26: an accepted completion leaves the task in reviewing, with a new
\* pending review child that names it as parent_task_id and in depends_on,
\* exactly when its task_type is feature, bugfix or refactor, its
\* review_round is below MAX_REVIEW_ROUNDS and it has no review child that
\* is neither completed nor failed; otherwise the task is completed and the
\* completion creates no task.
C26_ReviewTriggeredIff ==
    [][ \A r \in Running, s \in AllReviewOutputs :
            ( /\ RunnerComplete(r, {"c1"}, s, TRUE)
              /\ CompletionOf(r, s).ok ) =>
                LET task == tasks[find_task(tasks, r.t)]
                    after == tasks'[find_task(tasks', r.t)]
                IN
                IF /\ task.task_type \in {"feature", "bugfix", "refactor"}
                   /\ task.review_round < MAX_REVIEW_ROUNDS
                   /\ ~OpenReviewChild(tasks, task.id)
                THEN /\ after.status = "reviewing"
                     /\ \E id \in CreatedInStep :
                           LET c == tasks'[find_task(tasks', id)] IN
                           /\ CreatedInStep = {id}
                           /\ c.status = "pending"
                           /\ c.task_type = "review"
                           /\ c.parent_task_id = task.id
                           /\ c.depends_on = << task.id >>
                ELSE /\ after.status = "completed"
                     /\ CreatedInStep = {} ]_vars

\* a feature task sent back by its first review has completed again and
\* waits in reviewing for a second, pending review child
C26_Witness ==
    \E i, k \in 1..Len(tasks) :
        /\ tasks[i].task_type = "feature"
        /\ tasks[i].status = "reviewing"
        /\ tasks[i].review_round = 1
        /\ tasks[k].task_type = "review"
        /\ tasks[k].status = "pending"
        /\ tasks[k].parent_task_id = tasks[i].id
        /\ tasks[k].depends_on = << tasks[i].id >>
        /\ \E j \in 1..Len(tasks) :
              /\ tasks[j].task_type = "review"
              /\ tasks[j].status = "completed"
              /\ tasks[j].parent_task_id = tasks[i].id

\* C27: at every time each task has at most one review child whose status
\* is neither completed nor failed.
C27_OneOpenReviewChild ==
    \A i \in 1..Len(tasks) :
        Cardinality({k \in 1..Len(tasks) :
                        /\ tasks[k].parent_task_id = tasks[i].id
                        /\ tasks[k].task_type = "review"
                        /\ tasks[k].status \notin {"completed", "failed"}}) <= 1

\* C28: after any sequence of creations, deletions and review spawns every
\* id in a task's depends_on is the id of a task of the persisted document:
\* a creation that names an unknown dependency and the deletion of a task
\* another task depends on are refused.
C28_DependsOnResolvable ==
    \A i \in 1..Len(tasks) :
        \A k \in 1..Len(tasks[i].depends_on) :
            find_task(tasks, tasks[i].depends_on[k]) # 0

\* after a deletion the document holds a task created with a dependency and
\* a review child that depends on its parent
C28_Witness ==
    /\ \E id \in 1..(MaxTaskId + 1) : << "task_deleted", id >> \in events
    /\ \E i \in 1..Len(tasks) :
          tasks[i].task_type = "plan" /\ tasks[i].depends_on # << >>
    /\ \E i \in 1..Len(tasks) :
          /\ tasks[i].task_type = "review"
          /\ tasks[i].depends_on = << tasks[i].parent_task_id >>

\* C29: deleting a task leaves no reference to it in the worker pool or in
\* its parent: no worker has it as current_task_id, a worker that was bound
\* to it is idle with no lease, the task is gone from the document, and its
\* parent's sub_tasks is what it was without the deleted id.
C29_DeleteLeavesNoReference ==
    [][ \A tid \in TaskIds(tasks) :
          delete_task(tid) =>
              LET task == tasks[find_task(tasks, tid)] IN
              /\ find_task(tasks', tid) = 0
              /\ \A w \in WorkerIds :
                    /\ workers'[w].current_task_id # tid
                    /\ workers[w].current_task_id = tid =>
                          /\ workers'[w].status = "idle"
                          /\ workers'[w].lease_id = 0
              /\ \A i \in 1..Len(tasks) :
                    tasks[i].id = task.parent_task_id =>
                        LET j == find_task(tasks', tasks[i].id) IN
                        /\ j # 0
                        /\ tasks'[j].sub_tasks =
                               SelectSeq(tasks[i].sub_tasks, LAMBDA x : x # tid) ]_vars

\* a route that answers 409 has left the document and the worker pool alone
Untouched(o) ==
    o.code = 409 =>
        /\ o.tasks = tasks
        /\ o.events = events
        /\ o.workers = workers

\* C30: a manual dispatch, claim, heartbeat, plan approval or manual retry
\* that is refused as a conflict leaves the persisted document and the
\* in-memory worker pool exactly as they were before the call.
C30_ConflictLeavesStateUntouched ==
    \A tid \in TaskIds(tasks) :
        /\ Untouched(dispatch_task_outcome(tid))
        /\ \A w \in WorkerIds :
              /\ Untouched(claim_task_outcome(tid, w))
              /\ \A lease \in HeartbeatLeases :
                    Untouched(heartbeat_task_outcome(tid, w, lease))
        /\ approve_plan_code(tid) = 409 =>
              \A approved \in BOOLEAN : ~ENABLED approve_plan(tid, approved, << >>)
        /\ retry_task_code(tid) = 409 => ~ENABLED retry_task(tid)

\* no worker is idle while a pending task has its dependencies completed
NoIdleConflict ==
    \E i \in 1..Len(tasks) :
        /\ tasks[i].status = "pending"
        /\ dependencies_satisfied(tasks[i], tasks)
        /\ \A w \in WorkerIds : workers[w].status # "idle"
        /\ dispatch_task_outcome(tasks[i].id).code = 409

\* the worker a task is assigned to holds another lease than the request's
LeaseConflict ==
    \E i \in 1..Len(tasks), w \in WorkerIds :
        /\ tasks[i].assigned_worker = w
        /\ workers[w].lease_id > 1
        /\ heartbeat_task_outcome(tasks[i].id, w, 1).code = 409

\* a worker in error is asked to claim a claimable task
WorkerConflict ==
    \E i \in 1..Len(tasks), w \in WorkerIds :
        /\ tasks[i].status \in {"pending", "in_progress"}
        /\ workers[w].status = "error"
        /\ claim_task_outcome(tasks[i].id, w).code = 409

\* a task waits on a dependency that is not completed
DependencyConflict ==
    \E i \in 1..Len(tasks) :
        /\ tasks[i].status = "pending"
        /\ ~dependencies_satisfied(tasks[i], tasks)
        /\ dispatch_task_outcome(tasks[i].id).code = 409
        /\ retry_task_code(tasks[i].id) = 409
        /\ approve_plan_code(tasks[i].id) = 409

C30_Witness ==
    /\ NoIdleConflict
    /\ LeaseConflict
    /\ WorkerConflict
    /\ DependencyConflict

\* C31: the events list never holds more than EVENTS_CAP entries, keeps the
\* events in emission order, and after an overflow holds exactly the most
\* recent EVENTS_CAP emissions: each emission appends its event and evicts
\* the oldest entry if and only if the list was full.
C31_Inv ==
    /\ Len(events) <= EVENTS_CAP
    /\ \A k \in 1..Len(events) :
          events[k].n = events[Len(events)].n - Len(events) + k
    /\ events # << >> =>
          Len(events) = IF events[Len(events)].n < EVENTS_CAP
                        THEN events[Len(events)].n ELSE EVENTS_CAP

\* what any emission made now leaves
C31_Emission ==
    \A type \in EmittedTypes :
        LET after == emit_event_list(events, type) IN
        /\ after[Len(after)].type = type
        /\ events # << >> => after[Len(after)].n = events[Len(events)].n + 1
        /\ \A k \in 1..(Len(after) - 1) :
              after[k] = events[k + Len(events) + 1 - Len(after)]
        /\ Len(after) = IF Len(events) = EVENTS_CAP THEN EVENTS_CAP
                         ELSE Len(events) + 1

C31_EventsBoundedRing == C31_Inv /\ C31_Emission

\* the list is full and its oldest entries have been evicted
C31_Witness ==
    /\ Len(events) = EVENTS_CAP
    /\ events[1].n > 2
    /\ \E k \in 1..Len(events) : events[k].type = "alert_triggered"

\* the project has a task that is neither completed nor failed
HasActiveTasks ==
    \E i \in 1..Len(tasks) : tasks[i].status \notin {"completed", "failed"}

Transitions ==
    { << "draft", "active" >>, << "draft", "archived" >>,
      << "active", "on_hold" >>, << "active", "completed" >>,
      << "active", "archived" >>, << "on_hold", "active" >>,
      << "on_hold", "archived" >>, << "completed", "archived" >> }

\* C32: a project's status changes only along the listed transitions,
\* archived is terminal, a change to completed or archived is refused while
\* the project has active tasks and a change to active while it has no
\* task, and a refused change leaves the project as it was.
C32_Inv ==
    \A next_status \in ProjectStatuses :
        LET o == update_project_outcome(next_status) IN
        /\ o.code = 409 => o.project = project
        /\ o.code = 200 /\ next_status # project.status =>
              /\ o.project.status = next_status
              /\ << project.status, next_status >> \in Transitions
              /\ next_status \in {"completed", "archived"} => ~HasActiveTasks
              /\ next_status = "active" => tasks # << >>
        /\ next_status # project.status
           /\ \/ next_status \in {"completed", "archived"} /\ HasActiveTasks
              \/ next_status = "active" /\ tasks = << >>
              \/ project.status = "archived"
           => o.code = 409

C32_Step ==
    project'.status # project.status =>
        /\ << project.status, project'.status >> \in Transitions
        /\ project'.status \in {"completed", "archived"} => ~HasActiveTasks
        /\ project'.status = "active" => tasks # << >>

C32_ProjectTransitions == []C32_Inv /\ [][C32_Step]_vars

\* a project went from active to completed with all its tasks done, and
\* cannot go back to active
C32_Witness ==
    /\ project.status = "completed"
    /\ project.completed_at # NoTime
    /\ tasks # << >>
    /\ ~HasActiveTasks
    /\ update_project_outcome("active").code = 409
    /\ update_project_outcome("archived").code = 200

\* C33: once a completion report has been accepted for the current attempt
\* of a task, a failure report for the same task from the same worker, with
\* no dispatch in between, changes neither the task's status, retry_count
\* and latest attempt nor the worker: the task is not queued again and the
\* worker is not released.
C33_FailAfterCompleteNoOp ==
    [][ \A p \in Reports(tasks), c \in CommitSets :
            ( /\ complete_task(p.t, p.w, p.l, c, << >>)
              /\ _complete_task_internal(tasks, events, workers, execs,
                                         p.t, p.w, p.l, c, << >>, now).ok
              /\ p.l = LatestLease(tasks[find_task(tasks, p.t)]) )
            => LET late == _fail_task_internal(
                               tasks', events', workers', execs',
                               p.t, p.w, p.l, "other", now')
                   i == find_task(tasks', p.t)
               IN /\ late.tasks[i].status = tasks'[i].status
                  /\ late.tasks[i].retry_count = tasks'[i].retry_count
                  /\ late.tasks[i].attempts = tasks'[i].attempts
                  /\ late.workers[p.w] = workers'[p.w] ]_vars

\* C34: in no reachable state are two tasks with status in_progress assigned
\* to the same worker.
C34_WorkerExclusive ==
    \A i, j \in 1..Len(tasks) :
        /\ i # j
        /\ tasks[i].status = "in_progress"
        /\ tasks[j].status = "in_progress"
        /\ tasks[i].assigned_worker # 0
        => tasks[i].assigned_worker # tasks[j].assigned_worker

\* the task is in_progress in the document, no dispatch cycle is under way,
\* no runner of the task is left and the worker it is assigned to is idle
Orphaned(tid) ==
    LET i == find_task(tasks, tid) IN
    /\ i # 0
    /\ tasks[i].status = "in_progress"
    /\ disp.pc = "idle"
    /\ \A r \in BagToSet(runners) : r.t # tid
    /\ tasks[i].assigned_worker # 0
    /\ workers[tasks[i].assigned_worker].status = "idle"

\* C35: a task leased by the dispatch loop whose runner has ended leaves
\* in_progress: it does not stay in_progress for ever with its worker idle
\* and no runner.
C35_LeasedTaskLeavesInProgress ==
    \A tid \in {Test1.id} :
        Orphaned(tid) ~> ~(find_task(tasks, tid) # 0
                           /\ tasks[find_task(tasks, tid)].status = "in_progress")

\* the pool a health tick made now would leave
AfterHealthTick ==
    [w \in WorkerIds |-> HealthOf(CliChecked(workers, now)[w], now)]

\* C36: a health tick moves a busy worker to error, with current_task_id and
\* lease_id cleared, consecutive_failures one higher and the error time
\* stamped, if and only if more than the heartbeat timeout has passed since
\* its last heartbeat; otherwise the worker is left busy as it was.
C36_TimeoutIffSilent ==
    \A w \in WorkerIds :
        workers[w].status = "busy" =>
            IF now - workers[w].last_heartbeat > WORKER_HEARTBEAT_TIMEOUT_SEC
            THEN /\ AfterHealthTick[w].status = "error"
                 /\ AfterHealthTick[w].current_task_id = 0
                 /\ AfterHealthTick[w].lease_id = 0
                 /\ AfterHealthTick[w].consecutive_failures
                       = workers[w].consecutive_failures + 1
                 /\ AfterHealthTick[w].error_at = now
            ELSE /\ AfterHealthTick[w].status = "busy"
                 /\ AfterHealthTick[w].current_task_id = workers[w].current_task_id
                 /\ AfterHealthTick[w].lease_id = workers[w].lease_id
                 /\ AfterHealthTick[w].consecutive_failures
                       = workers[w].consecutive_failures

\* a worker that fell silent while running a task has been timed out by the
\* health tick of this instant, one second after the timeout
C36_Witness ==
    \E w \in WorkerIds :
        /\ workers[w].status = "error"
        /\ workers[w].error_at = now
        /\ workers[w].current_task_id = 0
        /\ workers[w].lease_id = 0
        /\ workers[w].consecutive_failures = 1
        /\ now - workers[w].last_heartbeat = WORKER_HEARTBEAT_TIMEOUT_SEC + 1
        /\ \E r \in BagToSet(runners) : r.w = w /\ r.pc = "running"

\* C37: a health tick returns a worker in error with fewer than
\* WORKER_MAX_CONSECUTIVE_FAILURES failures to idle, with the error time
\* cleared and the heartbeat refreshed, exactly when at least the cooldown
\* has passed since the error time, and leaves it in error before that; a
\* busy worker is never idle after the tick, so no worker is timed out and
\* recovered by the same tick.
C37_RecoveryAtCooldown ==
    \A w \in WorkerIds :
        /\ ( /\ workers[w].status = "error"
             /\ workers[w].consecutive_failures < WORKER_MAX_CONSECUTIVE_FAILURES )
           => /\ workers[w].error_at # NoTime
              /\ IF now - workers[w].error_at >= WORKER_COOLDOWN_SEC
                 THEN /\ AfterHealthTick[w].status = "idle"
                      /\ AfterHealthTick[w].error_at = NoTime
                      /\ AfterHealthTick[w].last_heartbeat = now
                      /\ AfterHealthTick[w].consecutive_failures
                            = workers[w].consecutive_failures
                 ELSE /\ AfterHealthTick[w].status = "error"
                      /\ AfterHealthTick[w].error_at = workers[w].error_at
        /\ workers[w].status = "busy" => AfterHealthTick[w].status # "idle"

\* a worker timed out one second after the heartbeat timeout has been
\* recovered by the health tick of this instant, exactly one cooldown later
C37_Witness ==
    \E w \in WorkerIds, i \in 1..Len(tasks) :
        /\ workers[w].status = "idle"
        /\ workers[w].error_at = NoTime
        /\ workers[w].consecutive_failures = 1
        /\ workers[w].last_heartbeat = now
        /\ << "worker_recovered", 0 >> \in events
        /\ tasks[i].assigned_worker = w
        /\ tasks[i].status = "in_progress"
        /\ now - tasks[i].started_at
              = WORKER_HEARTBEAT_TIMEOUT_SEC + 1 + WORKER_COOLDOWN_SEC

\* C38: a step of the health loop, the only one that moves a busy worker to
\* error or that recovers a worker in error with a worker_recovered event,
\* changes no task: the task a
\* stalled worker was running keeps its status in_progress, its
\* assigned_worker, its attempts and its retry_count.
C38_HealthTickLeavesTasks ==
    [][ /\ HealthTick => tasks' = tasks
        /\ \A w \in WorkerIds :
              ( \/ workers[w].status = "busy" /\ workers'[w].status = "error"
                \/ /\ workers[w].status = "error" /\ workers'[w].status = "idle"
                   /\ << "worker_recovered", 0 >> \in events' \ events )
              => /\ tasks' = tasks
                 /\ \A i \in 1..Len(tasks) :
                       ( tasks[i].status = "in_progress" /\ tasks[i].assigned_worker = w )
                       => /\ tasks'[i].status = "in_progress"
                          /\ tasks'[i].assigned_worker = w
                          /\ tasks'[i].attempts = tasks[i].attempts
                          /\ tasks'[i].retry_count = tasks[i].retry_count
      ]_vars

\* the health tick of this instant has moved a stalled worker to error and
\* the task it was running is still in_progress in its name, its latest
\* attempt still running
C38_Witness ==
    \E w \in WorkerIds, i \in 1..Len(tasks) :
        /\ workers[w].status = "error"
        /\ workers[w].error_at = now
        /\ tasks[i].status = "in_progress"
        /\ tasks[i].assigned_worker = w
        /\ tasks[i].attempts # << >>
        /\ tasks[i].attempts[Len(tasks[i].attempts)].status = "running"
        /\ tasks[i].attempts[Len(tasks[i].attempts)].worker_id = w

\* the idle workers of an engine whose CLI is on the host
IdleOf(engine) ==
    {w \in WorkerIds : /\ workers[w].status = "idle"
                       /\ workers[w].cli_available
                       /\ WorkerEngine(w) = engine}

\* the first candidate of a cycle starting now is not a review task, no
\* worker of its routed engine is idle and one of the other engine is
FallbackDue ==
    /\ disp.pc = "idle"
    /\ LET q == PendingQueue(_refresh_parent_rollup(tasks, now), now) IN
       /\ q # << >>
       /\ LET h == tasks[find_task(tasks, Head(q))] IN
          /\ h.task_type # "review"
          /\ IdleOf(h.routed_engine) = {}
          /\ IdleOf(OtherEngine(h.routed_engine)) # {}

\* the cycle stands at the await that follows the engine_fallback event
C39_Inv ==
    /\ FallbackDue =>
          LET h == Head(PendingQueue(_refresh_parent_rollup(tasks, now), now))
              o == BeginOutcome
          IN /\ o.disp.pc = "fallback"
             /\ o.disp.cur = h
             /\ o.disp.pick \in IdleOf(OtherEngine(tasks[find_task(tasks, h)].routed_engine))
    /\ disp.pc = "fallback" =>
          LET t == disp.tasks[find_task(disp.tasks, disp.cur)] IN
          /\ t.task_type # "review"
          /\ t.fallback_reason = IF t.routed_engine = "claude"
                                 THEN "no_idle_claude" ELSE "no_idle_codex"
          /\ t.routed_engine = tasks[find_task(tasks, disp.cur)].routed_engine
          /\ << "engine_fallback", disp.cur >> \in disp.events
          /\ WorkerEngine(disp.pick) = OtherEngine(t.routed_engine)

\* the resumption after that await leases the task to the chosen worker, and
\* the write that ends the cycle puts the lease and the event in the document
C39_Step ==
    /\ ( disp.pc = "fallback" /\ disp' # disp ) =>
          LET w == disp.pick
              old == disp.tasks[find_task(disp.tasks, disp.cur)]
              new == disp'.tasks[find_task(disp'.tasks, disp.cur)]
          IN /\ disp'.pc = "assigned"
             /\ new.status = "in_progress"
             /\ new.assigned_worker = w
             /\ new.fallback_reason = old.fallback_reason
             /\ new.routed_engine = old.routed_engine
             /\ Len(new.attempts) = Len(old.attempts) + 1
             /\ new.attempts[Len(new.attempts)].engine = WorkerEngine(w)
             /\ new.attempts[Len(new.attempts)].engine # new.routed_engine
             /\ new.attempts[Len(new.attempts)].worker_id = w
             /\ new.attempts[Len(new.attempts)].lease_id = leases'
             /\ workers'[w].status = "busy"
             /\ workers'[w].current_task_id = disp.cur
             /\ workers'[w].lease_id = leases'
             /\ << "engine_fallback", disp.cur >> \in disp'.events
    /\ ( disp.pc = "assigned" /\ disp'.pc = "idle" ) =>
          \A i \in 1..Len(disp.tasks) :
              ( disp.tasks[i].status = "in_progress"
                /\ LatestEngine(disp.tasks[i]) # disp.tasks[i].routed_engine )
              => /\ tasks'[i] = disp.tasks[i]
                 /\ << "engine_fallback", disp.tasks[i].id >> \in events'

\* C39: when the candidate is not a review task, no worker of its routed
\* engine is idle and a worker of the other engine is, the dispatch cycle
\* records fallback_reason on the task, emits an engine_fallback event,
\* leases the task to that worker with the worker's engine in the new
\* attempt, and leaves routed_engine as it was.
C39_FallbackLease == []C39_Inv /\ [][C39_Step]_vars

\* the document holds a task leased by fallback: in_progress in the name of
\* a busy worker of the other engine than the one it is routed to, the
\* reason and the event recorded
C39_Witness ==
    /\ disp.pc = "idle"
    /\ \E i \in 1..Len(tasks) :
          LET w == tasks[i].assigned_worker IN
          /\ tasks[i].status = "in_progress"
          /\ tasks[i].task_type # "review"
          /\ tasks[i].fallback_reason # "none"
          /\ w # 0
          /\ WorkerEngine(w) = OtherEngine(tasks[i].routed_engine)
          /\ LatestEngine(tasks[i]) = WorkerEngine(w)
          /\ workers[w].status = "busy"
          /\ workers[w].current_task_id = tasks[i].id
          /\ workers[w].lease_id = LatestLease(tasks[i])
          /\ << "engine_fallback", tasks[i].id >> \in events

\* C40: no two tasks of the document share an id, and a task that enters
\* the document receives an id greater than the id of every task created
\* before it, the deleted ones included.
C40_IdsNeverReused ==
    [][ /\ \A i, j \in 1..Len(tasks') :
              tasks'[i].id = tasks'[j].id => i = j
        /\ \A i \in 1..Len(tasks') :
              tasks'[i].id \notin TaskIds(tasks) =>
                  \A e \in events :
                      e[1] = "task_created" => e[2] < tasks'[i].id
      ]_vars

====
